---------------------------- MODULE Spec2Model ----------------------------
(***************************************************************************)
(* Model of the retrieval store of Omni-Nexus (src/rag_system.py): the     *)
(* SimpleVectorStore with its JSON backing file, and the RAGSystem facade  *)
(* in front of it; of the HTTP handlers that call it (src/main.py); and of *)
(* the chat engine those handlers pass the context to (src/ai_engine.py).  *)
(*                                                                         *)
(* Text is a sequence of one-character strings, so that splitting,         *)
(* lower-casing, punctuation removal and joining are computed and not      *)
(* assumed.  In the store a float is modelled by the exact rational it     *)
(* approximates (a record [n, d] in lowest terms), and a similarity        *)
(* rounded to four decimals is the integer number of ten-thousandths;      *)
(* where _cosine_similarity is called on its own the floats are IEEE 754   *)
(* doubles, with every operation rounded as the hardware rounds it.        *)
(***************************************************************************)
EXTENDS Integers, Sequences, FiniteSets, TLC

VARIABLES
  documents,       \* SimpleVectorStore.documents when it is a list: the records, in order
  documents_type,  \* the Python type of SimpleVectorStore.documents: "list", "dict", "NoneType"
  file,            \* the backing file at storage_path
  save_failures,   \* the calls of _save that failed since the store was constructed
  call,            \* the call or event that produced this state, with what it returned or raised
  external,        \* what another writer last put in the file since this store loaded it
  requests,        \* the HTTP requests suspended at an await, in arrival order
  ai_engine,       \* GmAIEngine: conversation_history, response_hashes, total_interactions
  frame            \* the locals of a call of _chunk_text that is inside its loop

vars == <<documents, documents_type, file, save_failures, call, external, requests, ai_engine,
         frame>>

\* what the store's own methods never touch
host == <<external, requests, ai_engine>>

---------------------------------------------------------------------------
(* Bounds of the model *)

\* the store holds at most this many chunk records
MaxRecords == 2
\* a process sees at most this many failing saves
MaxSaveFailures == 1
\* the store called directly holds at most this many chunk records
MaxStoreRecords == 3
\* search is called with top_k up to this, and with its default
MaxTopK == 2
\* the number of times the long near-duplicate text repeats its word
NearRepeats == 100
\* at most this many HTTP requests are suspended at once
MaxRequests == 2
\* the engine processes at most this many chat messages in a process
MaxChats == 2
\* the engine called on its own processes at most this many messages between
\* two calls of clear_history,
MaxMessages == 52
\* and only while it has processed fewer than this many does the backend
\* repeat an answer at will, or a message come with a RAG context
MaxEarlyChats == 2
\* _chunk_text called on its own is given texts of up to this many words,
MaxWords == 5
\* a chunk_size up to this,
MaxChunkSize == 3
\* and an overlap up to this
MaxOverlap == 4
\* _tokenize called on its own is given every text of up to this many characters
MaxTextLen == 3
\* _cosine_similarity called on its own is given the term frequencies of
\* up to this many tokens,
MaxTokens == 6
\* of which the first term is at most this many
MaxFirstTerm == 2

---------------------------------------------------------------------------
(* Program constants *)

CHUNK_SIZE == 512
CHUNK_OVERLAP == 50
QUERY_TOP_K == 3
SEARCH_TOP_K == 5
\* process_message: conversation_history[-20:], the cut to the last 60 beyond 100
HISTORY_WINDOW == 20
HISTORY_LIMIT == 100
HISTORY_KEEP == 60
\* _is_duplicate: the cut of response_hashes to the last 30 beyond 50
HASH_LIMIT == 50
HASH_KEEP == 30
\* process_message: retry_count < 2
MAX_RETRIES == 2
PREVIEW_LEN == 200
\* the similarity threshold 0.01 is 1 / THRESHOLD_INV
THRESHOLD_INV == 100
\* round(similarity, 4): ten-thousandths
ROUND_SCALE == 10000

---------------------------------------------------------------------------
(* Characters and strings *)

Whitespace == {" ", "\n", "\t"}
UpperCase == <<"A","B","C","D","E","F","G","H","I","J","K","L","M",
               "N","O","P","Q","R","S","T","U","V","W","X","Y","Z">>
LowerCase == <<"a","b","c","d","e","f","g","h","i","j","k","l","m",
               "n","o","p","q","r","s","t","u","v","w","x","y","z">>
Digits == <<"0","1","2","3","4","5","6","7","8","9">>

Range(s) == {s[i] : i \in DOMAIN s}

UpperChars == Range(UpperCase)
WordChars == Range(UpperCase) \cup Range(LowerCase) \cup Range(Digits) \cup {"_"}

\* a character matched by \w
IsWordChar(c) == c \in WordChars

\* a character matched by \s
IsSpace(c) == c \in Whitespace

\* str.lower(), one character
lower_char(c) ==
  IF c \in UpperChars
  THEN LowerCase[CHOOSE i \in DOMAIN UpperCase : UpperCase[i] = c]
  ELSE c

\* str.lower()
lower(text) == [i \in DOMAIN text |-> lower_char(text[i])]

\* re.sub(r'[^\w\s]', ' ', text)
sub_punctuation(text) ==
  [i \in DOMAIN text |-> IF IsWordChar(text[i]) \/ IsSpace(text[i]) THEN text[i] ELSE " "]

\* the words of text that start at a position in lo..hi, in order
RECURSIVE split_range(_, _, _)
split_range(text, lo, hi) ==
  IF lo > hi THEN <<>>
  ELSE IF lo = hi
  THEN IF ~IsSpace(text[lo]) /\ (lo = 1 \/ IsSpace(text[lo - 1]))
       THEN LET last == CHOOSE j \in lo..Len(text) :
                           /\ \A k \in lo..j : ~IsSpace(text[k])
                           /\ (j = Len(text) \/ IsSpace(text[j + 1]))
            IN  <<SubSeq(text, lo, last)>>
       ELSE <<>>
  ELSE LET mid == (lo + hi) \div 2
       IN  split_range(text, lo, mid) \o split_range(text, mid + 1, hi)

\* str.split(): the maximal runs of non-whitespace characters
split(text) == split_range(text, 1, Len(text))

\* ' '.join(words[lo..hi])
RECURSIVE join_range(_, _, _)
join_range(words, lo, hi) ==
  IF lo > hi THEN <<>>
  ELSE IF lo = hi THEN words[lo]
  ELSE LET mid == (lo + hi) \div 2
       IN  join_range(words, lo, mid) \o <<" ">> \o join_range(words, mid + 1, hi)

\* ' '.join(words)
join(words) == join_range(words, 1, Len(words))

\* str.strip() is non-empty
strip_nonempty(text) == \E i \in DOMAIN text : ~IsSpace(text[i])

\* a bound of a Python slice: a negative one counts from the end, and both
\* are clamped to 0..len
slice_bound(i, len) ==
  LET from_end == IF i < 0 THEN i + len ELSE i
  IN  IF from_end < 0 THEN 0 ELSE IF from_end > len THEN len ELSE from_end

\* words[start:end] of a Python list (0-based, end exclusive)
slice(words, start, end) ==
  SubSeq(words, slice_bound(start, Len(words)) + 1, slice_bound(end, Len(words)))

---------------------------------------------------------------------------
(* Rationals standing for floats; Python dicts *)

\* {} : the dict with no key
EmptyDict == << >>

\* dict.get(key, default)
get(d, key, default) == IF key \in DOMAIN d THEN d[key] ELSE default

RECURSIVE gcd(_, _)
gcd(a, b) == IF b = 0 THEN a ELSE gcd(b, a % b)

Rat(n, d) == LET g == gcd(n, d) IN [n |-> n \div g, d |-> d \div g]
Zero == [n |-> 0, d |-> 1]
RAdd(p, q) == Rat(p.n * q.d + q.n * p.d, p.d * q.d)
RMul(p, q) == Rat(p.n * q.n, p.d * q.d)
RLess(p, q) == p.n * q.d < q.n * p.d

---------------------------------------------------------------------------
(* Tokenizer, chunker, term frequencies *)

stopwords ==
    {<<"a">>, <<"o">>, <<"e">>, <<"d", "e">>,
     <<"d", "o">>, <<"d", "a">>, <<"e", "m">>, <<"u", "m">>,
     <<"u", "m", "a">>, <<"p", "a", "r", "a">>, <<"c", "o", "m">>, <<"q", "u", "e">>,
     <<"t", "h", "e">>, <<"i", "s">>, <<"a", "n", "d">>, <<"o", "r">>,
     <<"t", "o">>, <<"o", "f">>}

\* _tokenize dropping the stopwords before it lower-cases
_tokenize_filter_first(text) ==
  LET tokens == split(sub_punctuation(text))
      kept == SelectSeq(tokens, LAMBDA t : t \notin stopwords /\ Len(t) > 1)
  IN  [i \in DOMAIN kept |-> lower(kept[i])]

\* SimpleVectorStore._tokenize
_tokenize(text) ==
  LET tokens == split(sub_punctuation(lower(text)))
  IN  SelectSeq(tokens, LAMBDA t : t \notin stopwords /\ Len(t) > 1)

\* _compute_tf dividing by the number of distinct tokens
_compute_tf_by_distinct(tokens) ==
  IF Len(tokens) = 0 THEN EmptyDict
  ELSE [t \in Range(tokens) |->
          Rat(Cardinality({i \in DOMAIN tokens : tokens[i] = t}), Cardinality(Range(tokens)))]

\* SimpleVectorStore._compute_tf
_compute_tf(tokens) ==
  LET total == Len(tokens)
  IN  IF total = 0 THEN EmptyDict
      ELSE [t \in Range(tokens) |->
              Rat(Cardinality({i \in DOMAIN tokens : tokens[i] = t}), total)]

\* the while loop of _chunk_text, from `start` on
RECURSIVE chunk_loop(_, _, _, _)
chunk_loop(words, start, chunk_size, overlap) ==
  IF start < Len(words)
  THEN LET end == start + chunk_size
           chunk == join(slice(words, start, end))
       IN  (IF strip_nonempty(chunk) THEN <<chunk>> ELSE <<>>)
             \o chunk_loop(words, end - overlap, chunk_size, overlap)
  ELSE <<>>

\* SimpleVectorStore._chunk_text
_chunk_text(text, chunk_size, overlap) ==
  LET chunks == chunk_loop(split(text), 0, chunk_size, overlap)
  IN  IF chunks # <<>> THEN chunks ELSE <<text>>

\* no call of _chunk_text has been made on its own
NoFrame ==
  [pc |-> "none", text |-> << >>, words |-> << >>, chunk_size |-> 0, overlap |-> 0,
   start |-> 0, chunks |-> << >>, iterations |-> 0, ret |-> << >>]


---------------------------------------------------------------------------
(* The texts, questions and ids the model draws its inputs from *)

TextEmpty == << >>
TextBlank == <<" ", "\n">>
TextHello == <<"h", "e", "l", "l", "o", " ", "w", "o", "r", "l", "d">>
\* one word more than the chunker's step, CHUNK_SIZE - CHUNK_OVERLAP: two chunks
TextLong ==
  join(<<<<"H", "e", "l", "l", "o", ",">>>>
         \o [i \in 1..(CHUNK_SIZE - CHUNK_OVERLAP - 1) |-> <<"a">>]
         \o <<<<"r", "u", "s", "t">>>>)

Texts == {TextEmpty, TextBlank, TextHello, TextLong}

\* texts for the store called directly
TextRust == <<"r", "u", "s", "t">>
\* "rust" a hundred times, then "zebra": cosine 100/sqrt(10001) with the query "rust"
TextNear ==
  join([i \in 1..NearRepeats |-> TextRust] \o <<<<"z", "e", "b", "r", "a">>>>)
\* two spaces between the words
TextSpaced == <<"h", "e", "l", "l", "o", " ", " ", "w", "o", "r", "l", "d">>

\* the chunks and the query of the ranking example
TextRustSystems == <<"r", "u", "s", "t", " ", "s", "y", "s", "t", "e", "m", "s", " ", "p", "r", "o", "g", "r", "a", "m", "m", "i", "n", "g">>
TextRustLanguage == <<"r", "u", "s", "t", " ", "p", "r", "o", "g", "r", "a", "m", "m", "i", "n", "g", " ", "l", "a", "n", "g", "u", "a", "g", "e">>
TextRustProgramming == <<"r", "u", "s", "t", " ", "p", "r", "o", "g", "r", "a", "m", "m", "i", "n", "g">>
ExampleTexts == {TextRustSystems, TextRustLanguage}

StoreTexts == {TextRust, TextNear, TextLong}
ChunkTexts == Texts \cup {TextSpaced, TextRust}
StoreQuestions == {<<"r", "u", "s", "t">>, <<"r", "u", "s", "t", " ", "z", "e", "b", "r", "a">>, <<"h", "e", "l", "l", "o", " ", "w", "o", "r", "l", "d">>, <<"o", "f", " ", "a">>}

Questions == {<<"r", "u", "s", "t">>, <<"h", "e", "l", "l", "o", " ", "w", "o", "r", "l", "d">>, <<"z", "e", "b", "r", "a">>, <<"o", "f", " ", "a">>}

\* hashlib.md5(content.encode()).hexdigest()[:12], for the texts of the model
md5_prefix(content) ==
  CASE content = TextEmpty -> "d41d8cd98f00"
    [] content = TextBlank -> "d784fa8b6d98"
    [] content = TextHello -> "5eb63bbbe01e"
    [] content = TextLong  -> "935393c57193"
    [] content = TextRust  -> "72812e308734"
    [] content = TextNear  -> "bca48a975c8d"
    [] content = TextSpaced -> "fd27fbb9872b"
    [] content = TextRustSystems -> "2a3b76192ab6"
    [] content = TextRustLanguage -> "bbcedb355588"


\* the value Python's dict.get returns for an absent key
None == "<None>"

---------------------------------------------------------------------------
(* Similarity *)

RECURSIVE sum_over(_, _)
sum_over(terms, f) ==
  IF terms = {} THEN Zero
  ELSE LET t == CHOOSE x \in terms : TRUE
       IN  RAdd(f[t], sum_over(terms \ {t}, f))

\* SimpleVectorStore._cosine_similarity.  The result stands for the
\* non-negative real whose square is .sq (dot^2 / (mag1^2 * mag2^2)).
_cosine_similarity(vec1, vec2) ==
  LET all_terms == DOMAIN vec1 \cup DOMAIN vec2
      dot_product == sum_over(all_terms, [t \in all_terms |-> RMul(get(vec1, t, Zero), get(vec2, t, Zero))])
      mag1_sq == sum_over(DOMAIN vec1, [t \in DOMAIN vec1 |-> RMul(vec1[t], vec1[t])])
      mag2_sq == sum_over(DOMAIN vec2, [t \in DOMAIN vec2 |-> RMul(vec2[t], vec2[t])])
      den == RMul(mag1_sq, mag2_sq)
      num == RMul(dot_product, dot_product)
  IN  IF mag1_sq = Zero \/ mag2_sq = Zero
      THEN [sq |-> Zero]
      ELSE [sq |-> Rat(num.n * den.d, num.d * den.n)]

\* a threshold every similarity passes: similarity >= 0
above_threshold_none(similarity) ==
  ~RLess(similarity.sq, Zero)

\* similarity > 0.01
above_threshold(similarity) ==
  RLess(Rat(1, THRESHOLD_INV * THRESHOLD_INV), similarity.sq)

\* x * m <= y * k for x, y < 2^31 and small m, k, computed in two limbs of
\* ROUND_SCALE so that no product leaves 32 bits
limbs(x, m) ==
  LET low == (x % ROUND_SCALE) * m
  IN  <<(x \div ROUND_SCALE) * m + low \div ROUND_SCALE, low % ROUND_SCALE>>
mul_leq(x, m, y, k) ==
  LET a == limbs(x, m)
      b == limbs(y, k)
  IN  a[1] < b[1] \/ (a[1] = b[1] /\ a[2] <= b[2])

\* the largest r in lo..hi with (2r - 1)^2 * d <= (2 * ROUND_SCALE)^2 * n,
\* i.e. with r - 1/2 <= ROUND_SCALE * sqrt(n / d)
RECURSIVE round_search(_, _, _)
round_search(lo, hi, sq) ==
  IF lo = hi THEN lo
  ELSE LET mid == (lo + hi + 1) \div 2
       IN  IF mul_leq((2 * mid - 1) * (2 * mid - 1), sq.d,
                      (2 * ROUND_SCALE) * (2 * ROUND_SCALE), sq.n)
           THEN round_search(mid, hi, sq)
           ELSE round_search(lo, mid - 1, sq)

\* round(similarity, 4), in ten-thousandths
round4(similarity) == round_search(0, ROUND_SCALE, similarity.sq)

---------------------------------------------------------------------------
(* SimpleVectorStore: the methods as functions of the document list *)

\* an append that puts the new records in front of the stored ones
append_front(docs, made) == made \o docs

\* self.documents.append(doc), for each record made
append(docs, made) == docs \o made

\* the records add_document appends for content
new_documents(content, metadata) ==
  LET doc_id == md5_prefix(content)
      chunks == _chunk_text(content, CHUNK_SIZE, CHUNK_OVERLAP)
  IN  [k \in 1..Len(chunks) |->
         LET i == k - 1
             tokens == _tokenize(chunks[k])
         IN  [id           |-> doc_id \o "_" \o ToString(i),
              parent_id    |-> doc_id,
              content      |-> chunks[k],
              tokens       |-> tokens,
              tf_vector    |-> _compute_tf(tokens),
              metadata     |-> metadata,
              chunk_index  |-> i,
              total_chunks |-> Len(chunks)]]

\* the metadata ingest_text builds
ingest_metadata(text, source, title) ==
  [source |-> source, title |-> title,
   char_count |-> Len(text), word_count |-> Len(split(text))]

\* what ingest_text(text) hands to the store and returns, for each text of the model
ingest_table ==
  [text \in Texts |->
     LET metadata == ingest_metadata(text, "manual", "Untitled")
     IN  [metadata |-> metadata,
          doc_id   |-> md5_prefix(text),
          docs     |-> new_documents(text, metadata)]]

\* the documents search scores above the threshold, in store order
search_matching(docs, query_tf) ==
  SelectSeq(docs, LAMBDA doc :
    above_threshold(_cosine_similarity(query_tf, get(doc, "tf_vector", EmptyDict))))

\* the result search appends for a matching document
search_result(doc, query_tf) ==
  [id         |-> doc.id,
   content    |-> doc.content,
   similarity |-> round4(_cosine_similarity(query_tf, get(doc, "tf_vector", EmptyDict))),
   metadata   |-> get(doc, "metadata", EmptyDict)]

\* a sort that is not stable: descending, equal keys in reverse order
sort_by_similarity_unstable(results) ==
  LET place(i) == Cardinality({j \in DOMAIN results :
                     \/ results[j].similarity > results[i].similarity
                     \/ (results[j].similarity = results[i].similarity /\ j >= i)})
  IN  [p \in DOMAIN results |-> results[CHOOSE i \in DOMAIN results : place(i) = p]]

\* list.sort(key = similarity, reverse = True): descending, equal keys keep their order
sort_by_similarity(results) ==
  LET place(i) == Cardinality({j \in DOMAIN results :
                     \/ results[j].similarity > results[i].similarity
                     \/ (results[j].similarity = results[i].similarity /\ j <= i)})
  IN  [p \in DOMAIN results |-> results[CHOOSE i \in DOMAIN results : place(i) = p]]

\* results[:top_k]
head(results, top_k) == SubSeq(results, 1, IF top_k < Len(results) THEN top_k ELSE Len(results))

\* SimpleVectorStore.search on a list of dicts: a matching record without
\* "id" or "content" raises KeyError (doc["id"], doc["content"])
search(docs, query, top_k) ==
  LET query_tf == _compute_tf(_tokenize(query))
      matching == search_matching(docs, query_tf)
  IN  IF \E i \in DOMAIN matching :
            "id" \notin DOMAIN matching[i] \/ "content" \notin DOMAIN matching[i]
      THEN [error |-> "KeyError", ret |-> << >>]
      ELSE [error |-> "none",
            ret |-> head(sort_by_similarity(
                           [i \in DOMAIN matching |-> search_result(matching[i], query_tf)]),
                         top_k)]

\* get_all_documents reporting, as chunks, the number of records stored for the parent
get_all_documents_counting(docs) ==
  LET parent(i) == get(docs[i], "parent_id", get(docs[i], "id", None))
      first == SelectSeq([i \in DOMAIN docs |-> i],
                         LAMBDA i : \A j \in 1..(i - 1) : parent(j) # parent(i))
  IN  [error |-> "none",
       ret |-> [k \in DOMAIN first |->
                  LET doc == docs[first[k]]
                  IN  [id       |-> parent(first[k]),
                       preview  |-> head(doc.content, PREVIEW_LEN),
                       metadata |-> get(doc, "metadata", EmptyDict),
                       chunks   |-> Cardinality({i \in DOMAIN docs :
                                                   parent(i) = parent(first[k])})]]]

\* SimpleVectorStore.get_all_documents on a list of dicts: doc["id"] is
\* evaluated for every record, doc["content"] for the first of each parent
get_all_documents(docs) ==
  LET parent(i) == get(docs[i], "parent_id", get(docs[i], "id", None))
      first == SelectSeq([i \in DOMAIN docs |-> i],
                         LAMBDA i : \A j \in 1..(i - 1) : parent(j) # parent(i))
  IN  IF \/ \E i \in DOMAIN docs : "id" \notin DOMAIN docs[i]
         \/ \E k \in DOMAIN first : "content" \notin DOMAIN docs[first[k]]
      THEN [error |-> "KeyError", ret |-> << >>]
      ELSE [error |-> "none",
            ret |-> [k \in DOMAIN first |->
                       LET doc == docs[first[k]]
                       IN  [id       |-> parent(first[k]),
                            preview  |-> head(doc.content, PREVIEW_LEN),
                            metadata |-> get(doc, "metadata", EmptyDict),
                            chunks   |-> get(doc, "total_chunks", 1)]]]

\* delete_keep comparing "id" only: a whole document is not removed by its parent id
delete_keep_by_id(docs, doc_id) ==
  SelectSeq(docs, LAMBDA d : get(d, "id", None) # doc_id)

\* delete_keep comparing "parent_id" only: a chunk is not removed by its own id
delete_keep_parent_only(docs, doc_id) ==
  SelectSeq(docs, LAMBDA d : get(d, "parent_id", None) # doc_id)

\* delete_keep removing the first matching record only
delete_keep_first_match(docs, doc_id) ==
  LET matches(d) == get(d, "parent_id", None) = doc_id \/ get(d, "id", None) = doc_id
      hits == {i \in DOMAIN docs : matches(docs[i])}
      first == IF hits = {} THEN 0 ELSE CHOOSE i \in hits : \A j \in hits : i <= j
  IN  SubSeq(docs, 1, first - 1) \o SubSeq(docs, first + 1, Len(docs))

\* the list delete_document keeps
delete_keep(docs, doc_id) ==
  SelectSeq(docs, LAMBDA d : get(d, "parent_id", None) # doc_id /\ get(d, "id", None) # doc_id)

\* delete_document that never calls _save
delete_document_never_saves(docs, doc_id) ==
  LET initial == Len(docs)
      kept == delete_keep(docs, doc_id)
  IN  [documents |-> kept, ret |-> Len(kept) < initial, saves |-> FALSE]

\* delete_document calling _save whether or not a record was removed
delete_document_always_saves(docs, doc_id) ==
  LET initial == Len(docs)
      kept == delete_keep(docs, doc_id)
  IN  [documents |-> kept, ret |-> Len(kept) < initial, saves |-> TRUE]

\* SimpleVectorStore.delete_document on a list of dicts: the new list, the
\* value returned, and whether _save is called
delete_document(docs, doc_id) ==
  LET initial == Len(docs)
      kept == delete_keep(docs, doc_id)
  IN  [documents |-> kept, ret |-> Len(kept) < initial, saves |-> Len(kept) < initial]

---------------------------------------------------------------------------
(* RAGSystem.query: the context string *)

\* str(n) for n >= 0
RECURSIVE decimal(_)
decimal(n) == IF n < 10 THEN <<Digits[n + 1]>> ELSE decimal(n \div 10) \o <<Digits[(n % 10) + 1]>>

\* f"{similarity:.2%}" for a similarity in ten-thousandths
percent(similarity) ==
  LET cents == similarity % 100
  IN  decimal(similarity \div 100) \o <<".">>
        \o <<Digits[(cents \div 10) + 1], Digits[(cents % 10) + 1]>> \o <<"%">>

\* f"[Doc {i+1}] (Relevancia: {r['similarity']:.2%})\n{r['content']}", i 0-based
query_part(i, r) ==
  <<"[", "D", "o", "c", " ">> \o decimal(i + 1) \o <<"]", " ", "(", "R", "e", "l", "e", "v", "a", "n", "c", "i", "a", ":", " ">>
    \o percent(r.similarity) \o <<")", "\n">> \o r.content

SEPARATOR == <<"\n", "\n", "-", "-", "-", "\n", "\n">>

\* a join that closes every part, the last one too, with the separator
RECURSIVE join_parts_trailing(_, _)
join_parts_trailing(parts, k) ==
  IF k = 0 THEN << >>
  ELSE join_parts_trailing(parts, k - 1) \o parts[k] \o SEPARATOR

\* "\n\n---\n\n".join(parts[lo..hi])
RECURSIVE join_parts(_, _)
join_parts(parts, k) ==
  IF k = 0 THEN << >>
  ELSE IF k = 1 THEN parts[1]
  ELSE join_parts(parts, k - 1) \o SEPARATOR \o parts[k]

\* RAGSystem.query on a list of dicts
query(docs, question, top_k) ==
  LET found == search(docs, question, top_k)
      results == found.ret
  IN  IF found.error # "none" THEN found
      ELSE IF results = << >> THEN [error |-> "none", ret |-> << >>]
      ELSE [error |-> "none",
            ret |-> join_parts([k \in DOMAIN results |-> query_part(k - 1, results[k])],
                               Len(results))]

---------------------------------------------------------------------------
(* The backing file *)

\* no file at storage_path
FileMissing == [kind |-> "missing", type |-> "-", items |-> << >>]
\* a file json.load cannot read: empty, cut short, not JSON, not UTF-8
FileMalformed == [kind |-> "malformed", type |-> "-", items |-> << >>]
\* a file holding the JSON text of a value of Python type `type`
FileJson(type, items) == [kind |-> "json", type |-> type, items |-> items]

\* no other writer has touched the file since the store loaded it
NoWriter == [kind |-> "none", type |-> "-", items |-> << >>]

\* _load that never reads the file
_load_always_empty(f) == [type |-> "list", items |-> << >>]

\* SimpleVectorStore.__init__ and _load: the value of self.documents
_load(f) ==
  IF f.kind = "json"
  THEN [type |-> f.type, items |-> f.items]
  ELSE [type |-> "list", items |-> << >>]

\* how a call of _save can end: written; failed before the file was opened
\* (mkdir or open raised); failed after open(path, 'w') had truncated it
SaveOutcomes == {"ok", "error_before_open", "error_after_open"}

\* the bound on failing saves
CanFail(outcome) == outcome = "ok" \/ save_failures < MaxSaveFailures

\* _save that merges: the records found in the file and unknown to the store are kept
_save_merging(type, items, outcome, f) ==
  CASE outcome = "ok" ->
         FileJson(type, items \o SelectSeq(f.items, LAMBDA r : r \notin Range(items)))
    [] outcome = "error_before_open" -> f
    [] outcome = "error_after_open" -> FileMalformed

\* _save that leaves the file alone when there is nothing to write
_save_skips_empty(type, items, outcome, f) ==
  CASE outcome = "ok" -> IF items = << >> THEN f ELSE FileJson(type, items)
    [] outcome = "error_before_open" -> f
    [] outcome = "error_after_open" -> FileMalformed

\* SimpleVectorStore._save: the file afterwards
_save(type, items, outcome, f) ==
  CASE outcome = "ok" -> FileJson(type, items)
    [] outcome = "error_before_open" -> f
    [] outcome = "error_after_open" -> FileMalformed


---------------------------------------------------------------------------
(* The ids delete_document is called with, and the files a process can find *)

DeleteIds ==
  {md5_prefix(text) : text \in Texts}
    \cup {md5_prefix(TextLong) \o "_0", md5_prefix(TextLong) \o "_1", "no-such-id"}

\* a record some other program wrote: no "id"
ForeignNoId == [content |-> <<"r", "u", "s", "t">>, tf_vector |-> (<<"r", "u", "s", "t">> :> Rat(1, 1))]
\* a record some other program wrote: only "id" and "content"
ForeignLegacy == [id |-> "legacy-1", content |-> <<"h", "e", "l", "l", "o", " ", "w", "o", "r", "l", "d">>]

\* the file before the first run of this program: absent, or unreadable
OwnFiles == {FileMissing, FileMalformed}

\* the file when another program wrote it: also well-formed JSON that is
\* no array of chunk records
ForeignFiles ==
  OwnFiles \cup {FileJson("dict", << >>), FileJson("NoneType", << >>),
                 FileJson("list", <<ForeignNoId>>), FileJson("list", <<ForeignLegacy>>)}

---------------------------------------------------------------------------
(* The facade on each value self.documents can hold *)

\* RAGSystem.get_documents
rag_get_documents(type, docs) ==
  CASE type = "list" -> get_all_documents(docs)
    [] type = "dict" -> [error |-> "none", ret |-> << >>]     \* iterating {}
    [] type = "NoneType" -> [error |-> "TypeError", ret |-> << >>]   \* for doc in None

\* RAGSystem.query
rag_query(type, docs, question) ==
  CASE type = "list" -> query(docs, question, QUERY_TOP_K)
    [] type = "dict" -> [error |-> "none", ret |-> << >>]     \* iterating {}
    [] type = "NoneType" -> [error |-> "TypeError", ret |-> << >>]   \* for doc in None

\* _save without its try/except: a failed write reaches the caller
save_raises_on_failure(outcome) == outcome # "ok"

\* _save catches every Exception and prints it: none reaches the caller
save_raises(outcome) == FALSE

---------------------------------------------------------------------------
(* State machine: one process at a time owns the store *)

Returned(op, arg, ret, save) ==
  [op |-> op, arg |-> arg, error |-> "none", ret |-> ret, save |-> save]
Raised(op, arg, error, save) ==
  [op |-> op, arg |-> arg, error |-> error, ret |-> None, save |-> save]
\* what the caller of a method that ended in _save sees
AfterSave(op, arg, ret, outcome) ==
  IF save_raises(outcome) THEN Raised(op, arg, "OSError", outcome)
  ELSE Returned(op, arg, ret, outcome)

\* the text of NexusConfig.SYSTEM_PROMPTS["balanced"], by its name
SYSTEM_PROMPT == <<"<", "S", "Y", "S", "T", "E", "M", "_", "P", "R", "O", "M", "P", "T", "S", ".", "b", "a", "l", "a", "n", "c", "e", "d", ">">>
RAG_PREFIX == <<"[", "C", "O", "N", "T", "E", "X", "T", "O", " ", "R", "A", "G", "]", ":", "\n">>
\* f"Erro de conexao: {str(e)}" for the NameError that the undefined GEMINI_URL raises
CONNECTION_ERROR == <<"E", "r", "r", "o", " ", "d", "e", " ", "c", "o", "n", "e", "x", "a", "o", ":", " ", "n", "a", "m", "e", " ", "'", "G", "E", "M", "I", "N", "I", "_", "U", "R", "L", "'", " ", "i", "s", " ", "n", "o", "t", " ", "d", "e", "f", "i", "n", "e", "d">>
NO_CONTENTS_REPLY == <<"E", "n", "v", "i", "e", " ", "u", "m", "a", " ", "m", "e", "n", "s", "a", "g", "e", "m", " ", "p", "a", "r", "a", " ", "c", "o", "m", "e", "c", "a", "r", ".">>

\* seq[-n:]
last(seq, n) == IF Len(seq) > n THEN SubSeq(seq, Len(seq) - n + 1, Len(seq)) ELSE seq

\* str.strip
RECURSIVE strip(_)
strip(text) ==
  IF text = << >> THEN text
  ELSE IF IsSpace(text[1]) THEN strip(Tail(text))
  ELSE IF IsSpace(text[Len(text)]) THEN strip(SubSeq(text, 1, Len(text) - 1))
  ELSE text

NoPayload == [contents |-> << >>, systemInstruction |-> << >>]

\* GmAIEngine._call_gemini: the reply, the payload built, and whether it was
\* posted to the backend.  The messages of role "system" are skipped when the
\* contents are built; GEMINI_URL is not defined in the module, so building
\* the url raises NameError, which the except clause turns into the reply.
_call_gemini(messages) ==
  LET system_prompt == IF messages # << >> /\ messages[1].role = "system"
                       THEN messages[1].content ELSE << >>
      turns == SelectSeq(messages, LAMBDA msg : msg.role # "system")
      contents == [k \in DOMAIN turns |->
                     [role |-> IF turns[k].role = "user" THEN "user" ELSE "model",
                      text |-> turns[k].content]]
  IN  IF contents = << >>
      THEN [text |-> NO_CONTENTS_REPLY, payload |-> NoPayload, posted |-> FALSE]
      ELSE [text |-> CONNECTION_ERROR,
            payload |-> [contents |-> contents, systemInstruction |-> system_prompt],
            posted |-> FALSE]

\* GmAIEngine._is_duplicate; a response's sha256 digest is modelled by the
\* normalized response itself
_is_duplicate(response_hashes, response) ==
  LET h == strip(lower(response))
      added == Append(response_hashes, h)
  IN  IF \E k \in DOMAIN response_hashes : response_hashes[k] = h
      THEN [duplicate |-> TRUE, response_hashes |-> response_hashes]
      ELSE [duplicate |-> FALSE,
            response_hashes |-> IF Len(added) > HASH_LIMIT THEN last(added, HASH_KEEP) ELSE added]

\* the while loop of process_message
RECURSIVE retry_loop(_, _, _, _)
retry_loop(response_hashes, reply, retry_count, messages) ==
  LET checked == _is_duplicate(response_hashes, reply.text)
  IN  IF checked.duplicate /\ retry_count < MAX_RETRIES
      THEN retry_loop(checked.response_hashes, _call_gemini(messages), retry_count + 1, messages)
      ELSE [response_hashes |-> checked.response_hashes, reply |-> reply,
            retry_count |-> retry_count]

\* GmAIEngine.process_message with the default personality parameters:
\* the engine afterwards, the messages built, the last request and the result
process_message(engine, user_message, rag_context) ==
  LET messages ==
        <<[role |-> "system", content |-> SYSTEM_PROMPT]>>
          \o (IF rag_context # << >>
              THEN <<[role |-> "system", content |-> RAG_PREFIX \o rag_context]>>
              ELSE << >>)
          \o last(engine.conversation_history, HISTORY_WINDOW)
          \o <<[role |-> "user", content |-> user_message]>>
      done == retry_loop(engine.response_hashes, _call_gemini(messages), 0, messages)
      history == engine.conversation_history
                   \o <<[role |-> "user", content |-> user_message],
                        [role |-> "assistant", content |-> done.reply.text]>>
      kept == IF Len(history) > HISTORY_LIMIT THEN last(history, HISTORY_KEEP) ELSE history
  IN  [engine |-> [conversation_history |-> kept,
                   response_hashes |-> done.response_hashes,
                   total_interactions |-> engine.total_interactions + 1],
       messages |-> messages,
       request |-> done.reply,
       result |-> [response |-> done.reply.text,
                   dedup_retries |-> done.retry_count,
                   context_turns |-> Len(kept) \div 2,
                   total_interactions |-> engine.total_interactions + 1]]

\* ai_engine = GmAIEngine()
NewEngine ==
  [conversation_history |-> << >>, response_hashes |-> << >>, total_interactions |-> 0]

\* rag_system = RAGSystem(): SimpleVectorStore() reads the file
Construct(f) ==
  /\ file = f
  /\ documents = _load(f).items
  /\ documents_type = _load(f).type
  /\ save_failures = 0
  /\ call = Returned("__init__", None, None, "not_called")
  /\ external = NoWriter
  /\ requests = << >>
  /\ ai_engine = NewEngine
  /\ frame = NoFrame

Init == \E f \in OwnFiles : Construct(f)

InitForeign == \E f \in ForeignFiles : Construct(f)

\* the bound on the size of the store: MaxRecords records, or two
\* ingestions of one text
Fits(docs, made) ==
  Len(docs) + Len(made) <= MaxRecords \/ docs = made

\* ingest_text on the store: add_document appends the records made and saves
Ingest(text, made) ==
  IF documents_type = "list"
  THEN /\ Fits(documents, made.docs)
       /\ \E outcome \in SaveOutcomes :
            /\ CanFail(outcome)
            /\ documents' = append(documents, made.docs)
            /\ file' = _save("list", documents', outcome, file)
            /\ save_failures' = save_failures + (IF outcome = "ok" THEN 0 ELSE 1)
            /\ call' = AfterSave("ingest_text", text,
                                 [status |-> "success", doc_id |-> made.doc_id,
                                  metadata |-> made.metadata], outcome)
            /\ UNCHANGED documents_type
  ELSE \* self.documents.append: a dict and None have no append
       /\ call' = Raised("ingest_text", text, "AttributeError", "not_called")
       /\ UNCHANGED <<documents, documents_type, file, save_failures>>

\* RAGSystem.ingest_text -> SimpleVectorStore.add_document
IngestText(text) ==
  /\ UNCHANGED <<host, frame>>
  /\ Ingest(text, ingest_table[text])

\* RAGSystem.query -> SimpleVectorStore.search
Query(question) ==
  /\ UNCHANGED <<host, frame>>
  /\ /\ call' = LET r == rag_query(documents_type, documents, question)
                IN  IF r.error = "none"
                    THEN Returned("query", question, r.ret, "not_called")
                    ELSE Raised("query", question, r.error, "not_called")
     /\ UNCHANGED <<documents, documents_type, file, save_failures>>

\* RAGSystem.get_documents -> SimpleVectorStore.get_all_documents
GetDocuments ==
  /\ UNCHANGED <<host, frame>>
  /\ /\ call' = LET r == rag_get_documents(documents_type, documents)
                IN  IF r.error = "none"
                    THEN Returned("get_documents", None, r.ret, "not_called")
                    ELSE Raised("get_documents", None, r.error, "not_called")
     /\ UNCHANGED <<documents, documents_type, file, save_failures>>

\* RAGSystem.delete_document -> SimpleVectorStore.delete_document
DeleteDocument(doc_id) ==
  /\ UNCHANGED <<host, frame>>
  /\ CASE documents_type = "list" ->
            LET r == delete_document(documents, doc_id)
            IN  IF r.saves
                THEN \E outcome \in SaveOutcomes :
                       /\ CanFail(outcome)
                       /\ documents' = r.documents
                       /\ file' = _save("list", documents', outcome, file)
                       /\ save_failures' = save_failures + (IF outcome = "ok" THEN 0 ELSE 1)
                       /\ call' = AfterSave("delete_document", doc_id, r.ret, outcome)
                       /\ UNCHANGED documents_type
                ELSE /\ documents' = r.documents
                     /\ call' = Returned("delete_document", doc_id, r.ret, "not_called")
                     /\ UNCHANGED <<documents_type, file, save_failures>>
       [] documents_type = "dict" ->
            \* the comprehension over the empty dict rebinds self.documents to []
            /\ documents' = << >>
            /\ documents_type' = "list"
            /\ call' = Returned("delete_document", doc_id, FALSE, "not_called")
            /\ UNCHANGED <<file, save_failures>>
       [] documents_type = "NoneType" ->
            \* len(None)
            /\ call' = Raised("delete_document", doc_id, "TypeError", "not_called")
            /\ UNCHANGED <<documents, documents_type, file, save_failures>>

\* RAGSystem.clear -> SimpleVectorStore.clear_all
Clear ==
  /\ UNCHANGED <<host, frame>>
  /\ IF documents_type = "NoneType"
     THEN \* None.clear()
          /\ call' = Raised("clear", None, "AttributeError", "not_called")
          /\ UNCHANGED <<documents, documents_type, file, save_failures>>
     ELSE \E outcome \in SaveOutcomes :
            /\ CanFail(outcome)
            /\ documents' = << >>
            /\ file' = _save(documents_type, documents', outcome, file)
            /\ save_failures' = save_failures + (IF outcome = "ok" THEN 0 ELSE 1)
            /\ call' = AfterSave("clear", None, None, outcome)
            /\ UNCHANGED documents_type

\* the process ends and a new one constructs the store on the same file,
\* and a new engine; the requests of the old process are gone
Restart ==
  /\ documents' = _load(file).items
  /\ documents_type' = _load(file).type
  /\ save_failures' = 0
  /\ call' = Returned("__init__", None, None, "not_called")
  /\ external' = NoWriter
  /\ requests' = << >>
  /\ ai_engine' = NewEngine
  /\ frame' = NoFrame
  /\ UNCHANGED file

Next ==
  \/ \E text \in Texts : IngestText(text)
  \/ \E question \in Questions : Query(question)
  \/ GetDocuments
  \/ \E doc_id \in DeleteIds : DeleteDocument(doc_id)
  \/ Clear
  \/ Restart

\* the program on a file only it has written
Spec == Init /\ [][Next]_vars

\* the program on a file another program may have written
SpecForeign == InitForeign /\ [][Next]_vars

TypeOK ==
  /\ documents_type \in {"list", "dict", "NoneType"}
  /\ documents_type # "list" => documents = << >>
  /\ save_failures \in 0..MaxSaveFailures
  /\ Len(requests) <= MaxRequests
  /\ ai_engine.total_interactions <= MaxChats
  /\ Len(ai_engine.conversation_history) = 2 * ai_engine.total_interactions


---------------------------------------------------------------------------
(* The store next to another writer of its file *)

\* what a second store instance on the same path writes: its own records only
ExternalFiles == {FileJson("list", ingest_table[text].docs) : text \in {TextHello, TextBlank}}

\* another writer replaces the content of the backing file
ExternalWrite(f) ==
  /\ file # f
  /\ file' = f
  /\ external' = f
  /\ call' = Returned("external_write", None, None, "not_called")
  /\ UNCHANGED <<documents, documents_type, save_failures, requests, ai_engine, frame>>

NextShared ==
  \/ \E text \in Texts : IngestText(text)
  \/ \E doc_id \in DeleteIds : DeleteDocument(doc_id)
  \/ Clear
  \/ Restart
  \/ \E f \in ExternalFiles : ExternalWrite(f)

\* the program while another writer changes its file
SpecShared == Init /\ [][NextShared]_vars

---------------------------------------------------------------------------
(* The HTTP host: the handlers of main.py on one event loop *)

HostTexts == {TextHello}
HostDeleteIds == {md5_prefix(TextHello), md5_prefix(TextHello) \o "_0", "no-such-id"}
ChatMessages == {TextHello, TextBlank}
UPLOAD_NAME == "upload.txt"

\* what ingest_text(text, source="file_upload", title=file.filename) hands to the store
upload_table ==
  [text \in HostTexts |->
     LET metadata == ingest_metadata(text, "file_upload", UPLOAD_NAME)
     IN  [metadata |-> metadata,
          doc_id   |-> md5_prefix(text),
          docs     |-> new_documents(text, metadata)]]

\* seq without its i-th element
without(seq, i) == SubSeq(seq, 1, i - 1) \o SubSeq(seq, i + 1, Len(seq))

\* rag_upload_file up to `await file.read()`: the handler is suspended
UploadReceive(text) ==
  /\ Len(requests) < MaxRequests
  /\ requests' = Append(requests, [handler |-> "rag_upload_file", text |-> text])
  /\ call' = Returned("await", text, None, "not_called")
  /\ UNCHANGED <<documents, documents_type, file, save_failures, external, ai_engine, frame>>

\* a resumed upload that appends its records and is suspended again before the save
UploadResumeUnsaved(i) ==
  /\ documents' = append(documents, upload_table[requests[i].text].docs)
  /\ requests' = without(requests, i)
  /\ call' = Returned("await", requests[i].text, None, "not_called")
  /\ UNCHANGED <<documents_type, file, save_failures, external, ai_engine, frame>>

\* rag_upload_file from `await file.read()` on: decode, ingest_text, respond
UploadResume(i) ==
  /\ requests' = without(requests, i)
  /\ UNCHANGED <<external, ai_engine, frame>>
  /\ Ingest(requests[i].text, upload_table[requests[i].text])

\* chat: the handler calls query, then process_message; no await of either
\* suspends, as _call_gemini fails before it reaches the network
Chat(message, use_rag) ==
  /\ ai_engine.total_interactions < MaxChats
  /\ UNCHANGED <<documents, documents_type, file, save_failures, external, requests, frame>>
  /\ LET arg == [message |-> message, use_rag |-> use_rag]
         found == IF use_rag THEN rag_query(documents_type, documents, message)
                  ELSE [error |-> "none", ret |-> << >>]
         done == process_message(ai_engine, message, found.ret)
     IN  IF ~strip_nonempty(message)
         THEN /\ call' = Raised("chat", arg, "HTTPException", "not_called")
              /\ UNCHANGED ai_engine
         ELSE IF found.error # "none"
         THEN /\ call' = Raised("chat", arg, found.error, "not_called")
              /\ UNCHANGED ai_engine
         ELSE /\ ai_engine' = done.engine
              /\ call' = Returned("chat", arg,
                                  [context |-> found.ret, messages |-> done.messages,
                                   request |-> done.request, result |-> done.result],
                                  "not_called")

NextHost ==
  \/ \E text \in HostTexts : IngestText(text)
  \/ \E text \in HostTexts : UploadReceive(text)
  \/ \E i \in DOMAIN requests : UploadResume(i)
  \/ GetDocuments
  \/ \E doc_id \in HostDeleteIds : DeleteDocument(doc_id)
  \/ Clear
  \/ \E message \in ChatMessages : \E use_rag \in BOOLEAN : Chat(message, use_rag)

\* the handlers of one process, interleaved at their awaits
SpecHost == Init /\ [][NextHost]_vars

---------------------------------------------------------------------------
(* SimpleVectorStore called directly, on a store of its own *)

\* the records add_document(content) appends, for each text of the model
add_document_table ==
  [content \in StoreTexts \cup ExampleTexts |-> new_documents(content, EmptyDict)]

\* _chunk_text(text) for each text of the model
chunk_table ==
  [text \in ChunkTexts |-> _chunk_text(text, CHUNK_SIZE, CHUNK_OVERLAP)]

\* SimpleVectorStore.add_document(content): metadata defaults to {}
AddDocument(content) ==
  /\ UNCHANGED <<host, frame>>
  /\ LET made == add_document_table[content]
     IN  /\ documents_type = "list"
         /\ Len(documents) + Len(made) <= MaxStoreRecords
         /\ \E outcome \in SaveOutcomes :
              /\ CanFail(outcome)
              /\ documents' = append(documents, made)
              /\ file' = _save("list", documents', outcome, file)
              /\ save_failures' = save_failures + (IF outcome = "ok" THEN 0 ELSE 1)
              /\ call' = AfterSave("add_document", content, md5_prefix(content), outcome)
              /\ UNCHANGED documents_type

\* SimpleVectorStore.search(query, top_k)
Search(question, top_k) ==
  /\ UNCHANGED <<host, frame>>
  /\ /\ documents_type = "list"
     /\ call' = LET r == search(documents, question, top_k)
                IN  IF r.error = "none"
                    THEN Returned("search", [query |-> question, top_k |-> top_k], r.ret, "not_called")
                    ELSE Raised("search", [query |-> question, top_k |-> top_k], r.error, "not_called")
     /\ UNCHANGED <<documents, documents_type, file, save_failures>>

\* SimpleVectorStore._chunk_text(text), with the default chunk_size and overlap
ChunkText(text) ==
  /\ UNCHANGED <<host, frame>>
  /\ /\ call' = Returned("_chunk_text", text, chunk_table[text], "not_called")
     /\ UNCHANGED <<documents, documents_type, file, save_failures>>

TopKs == (1..MaxTopK) \cup {SEARCH_TOP_K}

NextStore ==
  \/ \E content \in StoreTexts : AddDocument(content)
  \/ \E question \in StoreQuestions : \E top_k \in TopKs : Search(question, top_k)
  \/ \E question \in StoreQuestions : Query(question)
  \/ GetDocuments
  \/ \E text \in ChunkTexts : ChunkText(text)

\* the store and the facade's query on a store filled by add_document
SpecStore == Init /\ [][NextStore]_vars

---------------------------------------------------------------------------
(* Properties *)

\* the state as an action property watches it: a step changes `steps` exactly
\* when it changes `vars`; the kind of call comes first, so that two calls of
\* different kinds are told apart before their results are compared
steps == <<call.op, call.error, vars>>

\* record d belongs to the document or is the chunk that doc_id names
Matches(d, doc_id) == d.parent_id = doc_id \/ d.id = doc_id

\* the records of docs with parent id D, in order
WithParent(docs, D) == SelectSeq(docs, LAMBDA d : d.parent_id = D)

NothingListed == [error |-> "none", ret |-> << >>]

FailedOutcomes == {"error_before_open", "error_after_open"}

\* d has every field of a ChunkRecord
IsChunkRecord(d) ==
  {"id", "parent_id", "content", "tokens", "tf_vector", "metadata",
   "chunk_index", "total_chunks"} \subseteq DOMAIN d

\* f holds a JSON array of ChunkRecords
IsChunkArray(f) ==
  /\ f.kind = "json"
  /\ f.type = "list"
  /\ \A i \in DOMAIN f.items : IsChunkRecord(f.items[i])

(* C1: starting from an empty store, after ingest_text(text) returns doc id D,
   get_documents() returns exactly one entry, with id D and chunks equal to
   the number of chunks of text (1 for "hello world"); delete_document(D)
   then returns true and get_documents() on what is left returns nothing. *)
C1_IngestListDelete ==
  [][ (/\ documents_type = "list"
       /\ documents = << >>
       /\ call'.op = "ingest_text"
       /\ call'.error = "none")
      => LET D == call'.ret.doc_id
             listed == rag_get_documents(documents_type', documents')
             deleted == delete_document(documents', D)
         IN  /\ listed.error = "none"
             /\ Len(listed.ret) = 1
             /\ listed.ret[1].id = D
             /\ listed.ret[1].chunks = Len(_chunk_text(call'.arg, CHUNK_SIZE, CHUNK_OVERLAP))
             /\ (call'.arg = TextHello => listed.ret[1].chunks = 1)
             /\ deleted.ret = TRUE
             /\ rag_get_documents("list", deleted.documents) = NothingListed ]_steps

\* the two-chunk text was ingested into the empty store
C1_Witness ==
  /\ call.op = "ingest_text"
  /\ call.error = "none"
  /\ documents = ingest_table[TextLong].docs

(* C2: when no save has failed since the store was constructed, a store
   constructed on the same file (a restart) returns from get_documents()
   exactly what the store returned immediately before the restart. *)
C2_RestartKeepsListing ==
  [][ (call'.op = "__init__" /\ save_failures = 0)
      => rag_get_documents(documents_type', documents')
           = rag_get_documents(documents_type, documents) ]_steps

\* a restart found two records in the file
C2_Witness ==
  /\ call.op = "__init__"
  /\ Len(documents) = 2
  /\ file = FileJson("list", documents)

(* C3: ingesting the same text twice in a row returns the same doc id both
   times and does not deduplicate: the second ingestion appends a second full
   set of chunk records equal to the first, and get_documents() lists that id
   exactly once, with chunks equal to total_chunks of the first stored record,
   which is the chunk count of one ingestion and not the number of records. *)
C3_SameTextTwice ==
  [][ (/\ call.op = "ingest_text" /\ call.error = "none"
       /\ call'.op = "ingest_text" /\ call'.error = "none"
       /\ call'.arg = call.arg)
      => LET D == call'.ret.doc_id
             n == Len(_chunk_text(call'.arg, CHUNK_SIZE, CHUNK_OVERLAP))
             before == Len(documents)
             stored == WithParent(documents', D)
             listed == rag_get_documents("list", documents')
             entries == SelectSeq(listed.ret, LAMBDA e : e.id = D)
         IN  /\ call.ret.doc_id = D
             /\ Len(documents') = before + n
             /\ \A k \in 1..n :
                  /\ documents'[before + k] = documents[before - n + k]
                  /\ documents'[before + k].parent_id = D
                  /\ documents'[before + k].chunk_index = k - 1
             /\ Len(stored) >= 2 * n
             /\ listed.error = "none"
             /\ Len(entries) = 1
             /\ entries[1].chunks = stored[1].total_chunks
             /\ entries[1].chunks = n
             /\ entries[1].chunks < Len(stored) ]_steps

\* the two-chunk text is stored twice: four records
C3_Witness ==
  /\ call.op = "ingest_text"
  /\ documents = ingest_table[TextLong].docs \o ingest_table[TextLong].docs

(* C4: delete_document(id) removes every record whose parent_id equals id or
   whose id equals id, keeps every other record unchanged and in the same
   relative order, and returns true exactly when at least one record was
   removed. *)
C4_DeleteRemovesMatching ==
  [][ (/\ documents_type = "list"
       /\ call'.op = "delete_document"
       /\ call'.error = "none")
      => LET keep == {i \in DOMAIN documents : ~Matches(documents[i], call'.arg)}
         IN  /\ Len(documents') = Cardinality(keep)
             /\ \A i \in keep :
                  documents'[Cardinality({j \in keep : j <= i})] = documents[i]
             /\ call'.ret = (Cardinality(keep) < Len(documents)) ]_steps

\* one chunk of the two-chunk document was deleted by its chunk id, the other is kept
C4_Witness ==
  /\ call.op = "delete_document"
  /\ call.arg = md5_prefix(TextLong) \o "_0"
  /\ call.ret = TRUE
  /\ Len(documents) >= 1

(* C5: delete_document(id) with an id that matches no record returns false,
   leaves the in-memory sequence unchanged and does not write the backing
   file; delete_document calls _save only when a record was removed. *)
C5_DeleteNoMatchNoWrite ==
  [][ (/\ documents_type = "list"
       /\ call'.op = "delete_document"
       /\ call'.error = "none")
      => LET hit == \E i \in DOMAIN documents : Matches(documents[i], call'.arg)
         IN  /\ ~hit => /\ call'.ret = FALSE
                        /\ documents' = documents
                        /\ file' = file
                        /\ call'.save = "not_called"
             /\ call'.save # "not_called" => hit ]_steps

\* a delete that matched nothing, on a store that holds records with a stale file
C5_Witness ==
  /\ call.op = "delete_document"
  /\ call.ret = FALSE
  /\ call.save = "not_called"
  /\ documents # << >>
  /\ file # FileJson("list", documents)

(* C6, as claimed: after clear() the in-memory sequence is empty and the
   backing file holds an empty array, get_documents() and every search return
   nothing, in the same process and after a restart. *)
C6_ClearEmptiesFile ==
  [][ (call'.op = "clear" /\ call'.error = "none")
      => /\ documents' = << >>
         /\ file' = FileJson("list", << >>)
         /\ rag_get_documents(documents_type', documents') = NothingListed
         /\ rag_get_documents(_load(file').type, _load(file').items) = NothingListed
         /\ \A q \in Questions :
              /\ rag_query(documents_type', documents', q) = NothingListed
              /\ rag_query(_load(file').type, _load(file').items, q) = NothingListed ]_steps

(* C6, amended: after clear() returns, the in-memory sequence is empty, and
   get_documents() and every search return nothing in the same process; when
   the save of clear succeeded, the backing file holds no record (the empty
   array, for a store that was a list) and get_documents() and every search
   return nothing after a restart too. *)
C6_ClearEmptiesStore ==
  [][ (call'.op = "clear" /\ call'.error = "none")
      => /\ documents' = << >>
         /\ rag_get_documents(documents_type', documents') = NothingListed
         /\ \A q \in Questions :
              rag_query(documents_type', documents', q) = NothingListed
         /\ call'.save = "ok" =>
              /\ file'.kind = "json"
              /\ file'.items = << >>
              /\ documents_type = "list" => file' = FileJson("list", << >>)
              /\ rag_get_documents(_load(file').type, _load(file').items) = NothingListed
              /\ \A q \in Questions :
                   rag_query(_load(file').type, _load(file').items, q) = NothingListed ]_steps

\* clear has emptied the store and written the empty array
C6_Witness ==
  /\ call.op = "clear"
  /\ call.save = "ok"
  /\ documents = << >>
  /\ file = FileJson("list", << >>)

(* C14, as claimed: after every add_document, every delete_document that
   removed something, and every clear whose save succeeds, the content of the
   backing file equals the full in-memory sequence. *)
C14_FileEqualsMemory ==
  [][ (/\ call'.error = "none"
       /\ \/ call'.op = "ingest_text"
          \/ (call'.op = "delete_document" /\ call'.ret = TRUE)
          \/ (call'.op = "clear" /\ call'.save = "ok"))
      => file' = FileJson("list", documents') ]_steps

(* C14, amended: after every add_document, every delete_document that removed
   something and every clear, provided the save of that call did not fail,
   the backing file holds the full in-memory sequence, same records in the
   same order, and a restart would load exactly that sequence. *)
C14_SavedFileEqualsMemory ==
  [][ (/\ call'.error = "none"
       /\ call'.save \notin FailedOutcomes
       /\ \/ call'.op = "ingest_text"
          \/ (call'.op = "delete_document" /\ call'.ret = TRUE)
          \/ call'.op = "clear")
      => /\ file' = FileJson("list", documents')
         /\ _load(file').items = documents' ]_steps

\* a delete by chunk id has removed one record and written the one that remains
C14_Witness ==
  /\ call.op = "delete_document"
  /\ call.ret = TRUE
  /\ call.save = "ok"
  /\ documents # << >>
  /\ file = FileJson("list", documents)

(* C18: search, query and get_documents never change the in-memory sequence
   or the backing file, and add_document never alters, removes or reorders
   records already stored: apart from delete_document and clear, every call
   leaves the stored records where they were. *)
C18_StoredRecordsKept ==
  [][ /\ call'.op \in {"search", "query", "get_documents"}
          => (documents' = documents /\ documents_type' = documents_type /\ file' = file)
      /\ call'.op = "add_document"
          => /\ Len(documents') > Len(documents)
             /\ SubSeq(documents', 1, Len(documents)) = documents
      /\ call'.op \notin {"delete_document", "clear", "__init__"}
          => /\ Len(documents') >= Len(documents)
             /\ \A i \in DOMAIN documents : documents'[i] = documents[i] ]_steps

\* add_document has appended to a store that held another document
C18_Witness ==
  /\ call.op = "add_document"
  /\ Len(documents) >= 2
  /\ documents[1].parent_id # documents[Len(documents)].parent_id

(* C7: ingest_text never fails and never indexes zero chunks: for every input
   text it returns status "success" with the doc id and has appended at least
   one record of that document; for the empty text the appended record's
   content is the input. *)
C7_IngestNeverFails ==
  call.op = "ingest_text"
    => /\ call.error = "none"
       /\ call.ret.status = "success"
       /\ call.ret.doc_id = md5_prefix(call.arg)
       /\ Len(documents) >= 1
       /\ documents[Len(documents)].parent_id = call.ret.doc_id
       /\ (call.arg = TextEmpty => documents[Len(documents)].content = TextEmpty)

(* C8: on construction, whenever the backing file is missing, unreadable, or
   does not hold an array of chunk records (well-formed JSON that is not an
   array included), the store's document sequence is the empty sequence. *)
C8_BadFileLoadsEmpty ==
  (call.op = "__init__" /\ ~IsChunkArray(file))
    => (documents_type = "list" /\ documents = << >>)

(* C9: when the save fails during add_document, delete_document or clear, the
   call still returns its normal result with no error raised, and the
   in-memory sequence keeps the mutation, so that get_documents and query in
   the same process reflect it. *)
C9_FailedSaveKeepsMutation ==
  [][ (call'.save \in FailedOutcomes)
      => LET listed == rag_get_documents(documents_type', documents')
         IN  /\ call'.error = "none"
             /\ listed.error = "none"
             /\ CASE call'.op = "ingest_text" ->
                       /\ call'.ret.status = "success"
                       /\ Len(documents') > Len(documents)
                       /\ SubSeq(documents', 1, Len(documents)) = documents
                       /\ documents'[Len(documents')].parent_id = call'.ret.doc_id
                       /\ \E k \in DOMAIN listed.ret : listed.ret[k].id = call'.ret.doc_id
                       /\ call'.arg = TextHello =>
                            rag_query(documents_type', documents', TextHello).ret # << >>
                  [] call'.op = "delete_document" ->
                       /\ call'.ret = TRUE
                       /\ Len(documents') < Len(documents)
                       /\ \A i \in DOMAIN documents' : ~Matches(documents'[i], call'.arg)
                       /\ \A k \in DOMAIN listed.ret : listed.ret[k].id # call'.arg
                  [] call'.op = "clear" ->
                       /\ documents' = << >>
                       /\ listed.ret = << >>
                       /\ \A q \in Questions :
                            rag_query(documents_type', documents', q) = NothingListed ]_steps

\* an ingestion whose save failed after truncating the file: the records are in memory only
C9_Witness ==
  /\ call.op = "ingest_text"
  /\ call.save = "error_after_open"
  /\ call.error = "none"
  /\ documents # << >>
  /\ file = FileMalformed

(* C10: query(question) never raises an error to its caller in any reachable
   store state, a store loaded from a file another program wrote included. *)
C10_QueryNeverRaises ==
  call.op = "query" => call.error = "none"


---------------------------------------------------------------------------
(* Search and query, on the store called directly *)

\* the tokens of a question, as a set
question_tokens(question) == Range(_tokenize(question))

\* some stored chunk has a token of the question
SharesToken(question, docs) ==
  \E i \in DOMAIN docs : question_tokens(question) \cap Range(docs[i].tokens) # {}

(* C11: if the question shares no token with any stored chunk, or normalizes
   to no tokens, or the store is empty, search returns an empty sequence and
   query returns the empty string. *)
C11_NoSharedTokenNoResult ==
  /\ (call.op = "search" /\ ~SharesToken(call.arg.query, documents))
       => (call.error = "none" /\ call.ret = << >>)
  /\ (call.op = "query" /\ ~SharesToken(call.arg, documents))
       => (call.error = "none" /\ call.ret = << >>)

\* a question with tokens, asked of a store whose chunks have none of them
C11_Witness ==
  /\ call.op = "query"
  /\ documents # << >>
  /\ question_tokens(call.arg) # {}
  /\ ~SharesToken(call.arg, documents)
  /\ call.ret = << >>

\* the cosine similarity of stored record d to the question
cosine_to(question, d) ==
  _cosine_similarity(_compute_tf(_tokenize(question)), d.tf_vector)

(* C12: search(query, top_k) returns at most top_k results, each for a stored
   chunk whose cosine similarity to the query is strictly greater than 0.01,
   ordered by non-increasing similarity, and no stored chunk left out of the
   result has a strictly higher cosine similarity than a returned one. *)
C12_SearchTopK ==
  (call.op = "search" /\ call.error = "none")
    => LET results == call.ret
           returned == {i \in DOMAIN documents :
                          \E k \in DOMAIN results : results[k].id = documents[i].id}
           left_out == DOMAIN documents \ returned
       IN  /\ Len(results) <= call.arg.top_k
           /\ \A k \in DOMAIN results :
                \E i \in DOMAIN documents :
                  /\ documents[i].id = results[k].id
                  /\ above_threshold(cosine_to(call.arg.query, documents[i]))
           /\ \A k \in 1..(Len(results) - 1) :
                results[k].similarity >= results[k + 1].similarity
           /\ \A i \in left_out : \A j \in returned :
                ~RLess(cosine_to(call.arg.query, documents[j]).sq,
                       cosine_to(call.arg.query, documents[i]).sq)

\* the number of places where the separator occurs in text
separators_in(text) ==
  Cardinality({i \in 1..(Len(text) - Len(SEPARATOR) + 1) :
                 SubSeq(text, i, i + Len(SEPARATOR) - 1) = SEPARATOR})

\* "[Doc i] (Relevancia: <similarity as a percentage>)", a newline, the content
block(i, r) ==
  <<"[", "D", "o", "c", " ">> \o decimal(i) \o <<"]", " ", "(", "R", "e", "l", "e", "v", "a", "n", "c", "i", "a", ":", " ">>
    \o decimal(r.similarity \div 100) \o <<".">>
    \o <<Digits[((r.similarity % 100) \div 10) + 1], Digits[(r.similarity % 10) + 1]>>
    \o <<"%", ")", "\n">> \o r.content

(* C13: when search yields n >= 1 hits, query returns exactly n blocks in
   rank order, block i being "[Doc i] (Relevancia: <percentage with two
   decimals>)", a newline and the chunk content, joined by exactly n - 1
   separators with none leading or trailing. *)
C13_QueryBlocks ==
  (call.op = "query" /\ call.error = "none")
    => LET hits == search(documents, call.arg, QUERY_TOP_K).ret
           n == Len(hits)
       IN  n >= 1 =>
             /\ separators_in(call.ret) = n - 1
             /\ call.ret =
                  CASE n = 1 -> block(1, hits[1])
                    [] n = 2 -> block(1, hits[1]) \o SEPARATOR \o block(2, hits[2])
                    [] n = 3 -> block(1, hits[1]) \o SEPARATOR \o block(2, hits[2])
                                  \o SEPARATOR \o block(3, hits[3])

\* a query with three hits
C13_Witness ==
  /\ call.op = "query"
  /\ call.error = "none"
  /\ Len(search(documents, call.arg, QUERY_TOP_K).ret) = QUERY_TOP_K
  /\ separators_in(call.ret) = QUERY_TOP_K - 1


---------------------------------------------------------------------------
(* Another writer *)

(* C15: if the backing file is changed by another writer after this store
   loaded it, the store's next successful save overwrites the file with its
   own in-memory sequence only: the other writer's records are absent from
   the file afterwards, unless the store holds them itself. *)
C15_LastSaveWins ==
  [][ (external'.kind = "json" /\ call'.save = "ok")
      => /\ file' = FileJson(documents_type', documents')
         /\ \A i \in DOMAIN external'.items :
              external'.items[i] \notin Range(documents')
                => external'.items[i] \notin Range(file'.items) ]_steps

\* the store has saved over the records another writer had put in the file
C15_Witness ==
  /\ external.kind = "json"
  /\ call.save = "ok"
  /\ file = FileJson("list", documents)
  /\ \E i \in DOMAIN external.items : external.items[i] \notin Range(file.items)


---------------------------------------------------------------------------
(* The HTTP host *)

(* C16: within the single-process HTTP host, store operations never
   interleave: every step of a handler that changes the store or its file is
   one complete store operation, the in-memory mutation together with its
   save, applied to the store as the previous operation left it; so the store
   is at every moment the result of running the requests handled so far one
   at a time, and no update is lost. *)
C16_HandlersAtomic ==
  [][ (documents' # documents \/ file' # file)
      => /\ call'.save \in SaveOutcomes
         /\ file' = _save("list", documents', call'.save, file)
         /\ \/ /\ call'.op = "ingest_text"
               /\ \E text \in HostTexts :
                    \E made \in {ingest_table[text].docs, upload_table[text].docs} :
                      documents' = documents \o made
            \/ /\ call'.op = "delete_document"
               /\ documents' = SelectSeq(documents, LAMBDA d : ~Matches(d, call'.arg))
            \/ /\ call'.op = "clear"
               /\ documents' = << >> ]_steps

\* an upload was suspended while rag_add_text ran, and has resumed: the store
\* holds both documents, and another upload is still suspended
C16_Witness ==
  /\ call.op = "ingest_text"
  /\ call.ret.metadata.source = "file_upload"
  /\ requests # << >>
  /\ Len(documents) = 2
  /\ documents[1].metadata.source = "manual"
  /\ documents[2].metadata.source = "file_upload"

\* sub occurs in text
contains(text, sub) ==
  \E i \in 1..(Len(text) - Len(sub) + 1) : SubSeq(text, i, i + Len(sub) - 1) = sub

(* C17: for a chat message with use_rag set, when query(message) returns a
   non-empty string that context is part of the request sent to the
   language-model backend for that message, ahead of the user's turn; when
   query returns the empty string no context is added. *)
C17_ContextReachesBackend ==
  (call.op = "chat" /\ call.error = "none" /\ call.arg.use_rag)
    => LET context == rag_query(documents_type, documents, call.arg.message).ret
           request == call.ret.request
           contents == request.payload.contents
       IN  /\ context # << >> =>
                /\ request.posted
                /\ \/ contains(request.payload.systemInstruction, context)
                   \/ \E k \in 1..(Len(contents) - 1) : contains(contents[k].text, context)
           /\ context = << >> =>
                /\ ~contains(request.payload.systemInstruction, RAG_PREFIX)
                /\ \A k \in DOMAIN contents : ~contains(contents[k].text, RAG_PREFIX)


---------------------------------------------------------------------------
(* Records and chunks *)

\* the number of times token t occurs in tokens
occurrences(tokens, t) == Cardinality({i \in DOMAIN tokens : tokens[i] = t})

(* C19: every record created by add_document satisfies
   0 <= chunk_index < total_chunks and id = parent_id + "_" + chunk_index;
   the keys of its tf_vector are exactly the distinct tokens of the chunk,
   each value is that token's occurrence count divided by the chunk's token
   count, and the values sum to 1 when the chunk has a token. *)
C19_RecordInvariants ==
  call.op = "add_document"
    => \A i \in DOMAIN documents :
         documents[i].parent_id = call.ret
           => LET d == documents[i]
                  tokens == _tokenize(d.content)
                  total == Len(tokens)
              IN  /\ 0 <= d.chunk_index
                  /\ d.chunk_index < d.total_chunks
                  /\ d.id = d.parent_id \o "_" \o ToString(d.chunk_index)
                  /\ d.tokens = tokens
                  /\ DOMAIN d.tf_vector = Range(tokens)
                  /\ \A t \in DOMAIN d.tf_vector :
                       d.tf_vector[t].n * total = occurrences(tokens, t) * d.tf_vector[t].d
                  /\ total >= 1 => sum_over(DOMAIN d.tf_vector, d.tf_vector) = Rat(1, 1)

\* add_document has stored a chunk in which a token occurs more than once
C19_Witness ==
  /\ call.op = "add_document"
  /\ \E t \in DOMAIN documents[Len(documents)].tf_vector :
       occurrences(documents[Len(documents)].tokens, t) > 1
  /\ Cardinality(DOMAIN documents[Len(documents)].tf_vector) > 1

(* C20: if the text has fewer words than size (default 512), chunking yields
   exactly one chunk, and that chunk equals the whole text. *)
C20_ShortTextOneChunk ==
  (call.op = "_chunk_text" /\ Len(split(call.arg)) < CHUNK_SIZE)
    => call.ret = <<call.arg>>

---------------------------------------------------------------------------
(* _chunk_text called on its own, one iteration of its loop at a time *)

\* a loop that has not ended after this many iterations is left where it is
MaxIterations == MaxWords + 2

\* the text of n one-letter words "a b c ..."
WordsText(n) == join([i \in 1..n |-> <<LowerCase[i]>>])

LoopTexts == {WordsText(n) : n \in 0..MaxWords} \cup {TextBlank, TextSpaced}

\* _chunk_text up to the first test of its loop: words = text.split(), start = 0
ChunkEnter(text, chunk_size, overlap) ==
  /\ frame.pc # "loop"
  /\ frame' = [pc |-> "loop", text |-> text, words |-> split(text),
               chunk_size |-> chunk_size, overlap |-> overlap,
               start |-> 0, chunks |-> << >>, iterations |-> 0, ret |-> << >>]
  /\ UNCHANGED <<documents, documents_type, file, save_failures, call, host>>

\* an iteration that starts the next chunk where this one ends
ChunkStepNoOverlap ==
  /\ frame.pc = "loop"
  /\ frame.start < Len(frame.words)
  /\ frame.iterations < MaxIterations
  /\ LET end == frame.start + frame.chunk_size
         chunk == join(slice(frame.words, frame.start, end))
     IN  frame' = [frame EXCEPT
                     !.chunks = IF strip_nonempty(chunk) THEN Append(@, chunk) ELSE @,
                     !.start = end,
                     !.iterations = @ + 1]
  /\ UNCHANGED <<documents, documents_type, file, save_failures, call, host>>

\* an iteration that leaves start where it is
ChunkStepNoAdvance ==
  /\ frame.pc = "loop"
  /\ frame.start < Len(frame.words)
  /\ frame.iterations < MaxIterations
  /\ LET end == frame.start + frame.chunk_size
         chunk == join(slice(frame.words, frame.start, end))
     IN  frame' = [frame EXCEPT
                     !.chunks = IF strip_nonempty(chunk) THEN Append(@, chunk) ELSE @,
                     !.iterations = @ + 1]
  /\ UNCHANGED <<documents, documents_type, file, save_failures, call, host>>

\* one iteration of `while start < len(words)`
ChunkStep ==
  /\ frame.pc = "loop"
  /\ frame.start < Len(frame.words)
  /\ frame.iterations < MaxIterations
  /\ LET end == frame.start + frame.chunk_size
         chunk == join(slice(frame.words, frame.start, end))
     IN  frame' = [frame EXCEPT
                     !.chunks = IF strip_nonempty(chunk) THEN Append(@, chunk) ELSE @,
                     !.start = end - frame.overlap,
                     !.iterations = @ + 1]
  /\ UNCHANGED <<documents, documents_type, file, save_failures, call, host>>

\* the loop test fails: return chunks if chunks else [text]
ChunkReturn ==
  /\ frame.pc = "loop"
  /\ ~(frame.start < Len(frame.words))
  /\ frame' = [frame EXCEPT
                 !.pc = "returned",
                 !.ret = IF frame.chunks # << >> THEN frame.chunks ELSE <<frame.text>>]
  /\ UNCHANGED <<documents, documents_type, file, save_failures, call, host>>

NextChunk ==
  \/ \E text \in LoopTexts : \E chunk_size \in 1..MaxChunkSize : \E overlap \in 0..MaxOverlap :
       ChunkEnter(text, chunk_size, overlap)
  \/ ChunkEnter(TextLong, CHUNK_SIZE, CHUNK_OVERLAP)
  \/ ChunkStep
  \/ ChunkReturn

\* _chunk_text with every chunk_size and overlap of the model
SpecChunk == Init /\ [][NextChunk]_vars

\* the interpreter runs a call that has started: an iteration or the return
\* that is possible is taken
SpecChunkFair == SpecChunk /\ WF_vars(ChunkStep) /\ WF_vars(ChunkReturn)

\* a call of _chunk_text has returned
ChunkReturned == frame.pc = "returned"

\* the number of k >= 0 with k * advance < W
windows(W, advance) == (W + advance - 1) \div advance

\* C21: with overlap < chunk_size and a text of W >= 1 words, chunk k is the
\* words at the positions k*(chunk_size-overlap) up to k*(chunk_size-overlap)
\* + chunk_size joined by single spaces, there is one chunk for every k with
\* k*(chunk_size-overlap) < W, every word is in a chunk, and with the default
\* arguments the start advances by 462
C21_ChunkWindows ==
  (ChunkReturned /\ frame.overlap < frame.chunk_size /\ split(frame.text) # << >>) =>
    LET words == split(frame.text)
        W == Len(words)
        advance == frame.chunk_size - frame.overlap
        chunks == frame.ret
    IN  /\ Len(chunks) = windows(W, advance)
        /\ \A k \in 0..(Len(chunks) - 1) :
             LET first == k * advance
                 after == IF first + frame.chunk_size < W THEN first + frame.chunk_size ELSE W
             IN  /\ first < W
                 /\ chunks[k + 1] = join(SubSeq(words, first + 1, after))
        /\ \A i \in 1..W : \E k \in 0..(Len(chunks) - 1) :
             k * advance < i /\ i <= k * advance + frame.chunk_size
        /\ (frame.chunk_size = CHUNK_SIZE /\ frame.overlap = CHUNK_OVERLAP) => advance = 462

\* a text of five words chunked by three with an overlap of one gives three
\* chunks, the last of one word
C21_Witness ==
  /\ ChunkReturned
  /\ frame.text = WordsText(5) /\ frame.chunk_size = 3 /\ frame.overlap = 1
  /\ frame.ret = <<WordsText(3), <<"c", " ", "d", " ", "e">>, <<"e">>>>

\* C22 as stated: the loop ends whenever overlap < chunk_size, and with
\* overlap >= chunk_size it never ends on a non-empty text
C22_NonEmptyTextLoops ==
  /\ (frame.pc = "loop" /\ frame.overlap < frame.chunk_size) ~> (frame.pc = "returned")
  /\ [][(frame.pc = "loop" /\ frame.overlap >= frame.chunk_size /\ frame.text # << >>)
          => frame'.pc = "loop"]_frame

\* C22: the loop ends whenever overlap < chunk_size, which covers the 512 and
\* 50 that add_document passes; with overlap >= chunk_size it never ends on a
\* text that holds at least one word
C22_LoopTermination ==
  /\ (frame.pc = "loop" /\ frame.overlap < frame.chunk_size) ~> (frame.pc = "returned")
  /\ [][(frame.pc = "loop" /\ frame.overlap >= frame.chunk_size /\ frame.words # << >>)
          => frame'.pc = "loop"]_frame

\* a loop with overlap >= chunk_size that is still running after every
\* iteration the model follows, its start no further than where it began
C22_Witness ==
  /\ frame.pc = "loop"
  /\ frame.overlap >= frame.chunk_size
  /\ frame.iterations = MaxIterations
  /\ frame.start <= 0

---------------------------------------------------------------------------
(* The listing after a chunk was deleted by its own id *)

\* the ids of the chunks of the two-chunk document
ChunkIds == {md5_prefix(TextLong) \o "_0", md5_prefix(TextLong) \o "_1"}

(* C23: after delete_document with the full chunk id of a multi-chunk
   document, get_documents lists the parent id exactly once while a record of
   it remains, with the preview of the first remaining record of that parent
   and chunks equal to that record's total_chunks, the chunk count of one
   ingestion and not the number of records that remain. *)
C23_ListingAfterChunkDelete ==
  [][ (/\ documents_type = "list"
       /\ call'.op = "delete_document" /\ call'.error = "none"
       /\ call'.arg \in ChunkIds
       /\ call'.ret = TRUE)
      => LET D == md5_prefix(TextLong)
             remaining == WithParent(documents', D)
             listed == rag_get_documents("list", documents')
             entries == SelectSeq(listed.ret, LAMBDA e : e.id = D)
         IN  /\ listed.error = "none"
             /\ \A i \in DOMAIN documents' : documents'[i].id # call'.arg
             /\ Len(entries) = (IF remaining = << >> THEN 0 ELSE 1)
             /\ remaining # << >> =>
                  /\ entries[1].preview = head(remaining[1].content, PREVIEW_LEN)
                  /\ entries[1].chunks = remaining[1].total_chunks
                  /\ entries[1].chunks = Len(_chunk_text(TextLong, CHUNK_SIZE, CHUNK_OVERLAP)) ]_steps

\* the first chunk of the two-chunk document was deleted by its id: one
\* record remains, and it says total_chunks = 2
C23_Witness ==
  /\ call.op = "delete_document"
  /\ call.arg = md5_prefix(TextLong) \o "_0"
  /\ call.ret = TRUE
  /\ Len(documents) = 1
  /\ documents[1].id = md5_prefix(TextLong) \o "_1"
  /\ documents[1].total_chunks = 2

---------------------------------------------------------------------------
(* _tokenize called on its own *)

\* the characters of the texts: a letter of a stopword, a capital that
\* completes it, the underscore, a punctuation mark and the space
TokenChars == {"o", "F", "_", ",", " "}

TokenTexts == UNION {[1..n -> TokenChars] : n \in 0..MaxTextLen}

\* _tokenize(text) for each text of the model
tokenize_table == [text \in TokenTexts \cup Texts |-> _tokenize(text)]

\* SimpleVectorStore._tokenize(text)
Tokenize(text) ==
  /\ call' = Returned("_tokenize", text, tokenize_table[text], "not_called")
  /\ UNCHANGED <<documents, documents_type, file, save_failures, host, frame>>

NextTokens == \E text \in TokenTexts \cup Texts : Tokenize(text)

\* _tokenize on every short text over TokenChars
SpecTokens == Init /\ [][NextTokens]_vars

\* C24: the tokens hold no punctuation character (none that is neither a word
\* character nor whitespace, and no whitespace either), none is a stopword,
\* none has length <= 1, and tokenizing the tokens joined by spaces gives the
\* same tokens
C24_TokensCleanIdempotent ==
  call.op = "_tokenize" =>
    LET tokens == call.ret
    IN  /\ \A i \in DOMAIN tokens :
             /\ \A j \in DOMAIN tokens[i] : IsWordChar(tokens[i][j])
             /\ tokens[i] \notin stopwords
             /\ Len(tokens[i]) > 1
        /\ _tokenize(join(tokens)) = tokens

\* "oF_" is the one token "of_"; in "oF," the comma goes and "of" is a stopword
C24_Witness ==
  /\ call.op = "_tokenize"
  /\ call.arg = <<"o", "F", "_">>
  /\ call.ret = << <<"o", "f", "_">> >>
  /\ _tokenize(<<"o", "F", ",">>) = << >>

---------------------------------------------------------------------------
(* IEEE 754 doubles: the floats of _compute_tf and _cosine_similarity *)

\* a natural number below 2^126 is NL limbs of LIMB_BITS bits, lowest first;
\* products of two limbs and sums of a few of them stay within 32 bits
LIMB_BITS == 14
NL == 9
LIMB == 2 ^ LIMB_BITS
\* a double has 53 significant bits
MANT_BITS == 53

BZero == [i \in 1..NL |-> 0]

\* n < 2^31 as limbs
BFromInt(n) ==
  [i \in 1..NL |-> CASE i = 1 -> n % LIMB
                     [] i = 2 -> (n \div LIMB) % LIMB
                     [] i = 3 -> (n \div LIMB) \div LIMB
                     [] OTHER -> 0]

\* the limbs of the number whose i-th limb-place holds c[i] + carry, c[i] < 2^31 - 2^17
RECURSIVE carry(_, _, _)
carry(c, i, k) ==
  IF i > NL THEN << >>
  ELSE LET t == c[i] + k IN <<t % LIMB>> \o carry(c, i + 1, t \div LIMB)

BAdd(a, b) == carry([i \in 1..NL |-> a[i] + b[i]], 1, 0)

\* a - b for a >= b
RECURSIVE borrow(_, _, _, _)
borrow(a, b, i, k) ==
  IF i > NL THEN << >>
  ELSE LET t == a[i] - b[i] - k
       IN  IF t < 0 THEN <<t + LIMB>> \o borrow(a, b, i + 1, 1)
           ELSE <<t>> \o borrow(a, b, i + 1, 0)

BSub(a, b) == borrow(a, b, 1, 0)

BLess(a, b) == \E i \in 1..NL : a[i] < b[i] /\ \A j \in (i + 1)..NL : a[j] = b[j]

\* sum of a[i] * b[k + 1 - i] for i in lo..k
RECURSIVE column(_, _, _, _)
column(a, b, k, lo) ==
  IF lo > k THEN 0 ELSE a[lo] * b[k + 1 - lo] + column(a, b, k, lo + 1)

\* a * b, for a and b of at most four limbs
BMul(a, b) == carry([k \in 1..NL |-> column(a, b, k, 1)], 1, 0)

\* a * 2^s
BShl(a, s) ==
  LET q == s \div LIMB_BITS
      r == s % LIMB_BITS
  IN  carry([i \in 1..NL |-> IF i > q THEN a[i - q] * (2 ^ r) ELSE 0], 1, 0)

\* a \div 2^s
BShr(a, s) ==
  LET q == s \div LIMB_BITS
      r == s % LIMB_BITS
      limb(i) == IF i <= NL THEN a[i] ELSE 0
  IN  [i \in 1..NL |-> limb(i + q) \div (2 ^ r) + (limb(i + q + 1) % (2 ^ r)) * (2 ^ (LIMB_BITS - r))]

BPow2(k) == BShl(BFromInt(1), k)

\* the number of bits of a: 0 for zero
BBitLen(a) ==
  IF a = BZero THEN 0
  ELSE LET top == CHOOSE i \in 1..NL : a[i] # 0 /\ \A j \in (i + 1)..NL : a[j] = 0
           bits == CHOOSE k \in 1..LIMB_BITS : 2 ^ (k - 1) <= a[top] /\ a[top] < 2 ^ k
       IN  LIMB_BITS * (top - 1) + bits

\* a * x for a limb x
BMulSmall(a, x) == carry([i \in 1..NL |-> a[i] * x], 1, 0)

\* a * LIMB^places
BShiftLimbs(a, places) == [i \in 1..NL |-> IF i > places THEN a[i - places] ELSE 0]

\* a <= b
BLeq(a, b) == ~BLess(b, a)

\* the largest x in lo..hi with x * d * LIMB^place <= r
RECURSIVE quotient_digit(_, _, _, _, _)
quotient_digit(r, d, place, lo, hi) ==
  IF lo = hi THEN lo
  ELSE LET mid == (lo + hi + 1) \div 2
       IN  IF BLeq(BShiftLimbs(BMulSmall(d, mid), place), r)
           THEN quotient_digit(r, d, place, mid, hi)
           ELSE quotient_digit(r, d, place, lo, mid - 1)

\* long division, one limb of the quotient at a time from `place` down: q
\* is the quotient so far and r what is left of the dividend
RECURSIVE div_loop(_, _, _, _)
div_loop(d, place, q, r) ==
  IF place < 0 THEN [q |-> q, r |-> r]
  ELSE LET x == quotient_digit(r, d, place, 0, LIMB - 1)
       IN  div_loop(d, place - 1,
                    BAdd(q, BShiftLimbs(BFromInt(x), place)),
                    BSub(r, BShiftLimbs(BMulSmall(d, x), place)))

\* n \div d and n % d, for d of at most four limbs and a quotient of at most five
BDivMod(n, d) == div_loop(d, 4, BZero, n)

\* (root + x * LIMB^place)^2 - root^2
root_step(root, x, place) ==
  BAdd(BShiftLimbs(BMulSmall(BShl(root, 1), x), place),
       BShiftLimbs(BFromInt(x * x), 2 * place))

\* the largest x in lo..hi with (root + x * LIMB^place)^2 - root^2 <= r
RECURSIVE root_digit(_, _, _, _, _)
root_digit(r, root, place, lo, hi) ==
  IF lo = hi THEN lo
  ELSE LET mid == (lo + hi + 1) \div 2
       IN  IF BLeq(root_step(root, mid, place), r)
           THEN root_digit(r, root, place, mid, hi)
           ELSE root_digit(r, root, place, lo, mid - 1)

\* the square root, one limb at a time from `place` down: r is n - root^2
RECURSIVE sqrt_loop(_, _, _)
sqrt_loop(place, root, r) ==
  IF place < 0 THEN [root |-> root, r |-> r]
  ELSE LET x == root_digit(r, root, place, 0, LIMB - 1)
       IN  sqrt_loop(place - 1,
                     BAdd(root, BShiftLimbs(BFromInt(x), place)),
                     BSub(r, root_step(root, x, place)))

\* the integer square root of n < 2^112, and n - root^2
BSqrt(n) == sqrt_loop(3, BZero, n)

\* a double is m * 2^e with m of exactly 53 bits, or zero
FZero == [m |-> BZero, e |-> 0]
FOne == [m |-> BPow2(MANT_BITS - 1), e |-> 1 - MANT_BITS]

\* the double nearest to n * 2^e (plus a little, if sticky), ties to even
FRound(n, e, sticky) ==
  LET len == BBitLen(n)
  IN  IF len = 0 THEN FZero
      ELSE IF len <= MANT_BITS
      THEN [m |-> BShl(n, MANT_BITS - len), e |-> e - (MANT_BITS - len)]
      ELSE LET k == len - MANT_BITS
               q == BShr(n, k)
               rest == BSub(n, BShl(q, k))
               half == BPow2(k - 1)
               up == \/ BLess(half, rest)
                     \/ rest = half /\ (sticky \/ q[1] % 2 = 1)
               rounded == IF up THEN BAdd(q, BFromInt(1)) ELSE q
           IN  IF rounded = BPow2(MANT_BITS)
               THEN [m |-> BPow2(MANT_BITS - 1), e |-> e + k + 1]
               ELSE [m |-> rounded, e |-> e + k]

\* float(n) for a small int
FFromInt(n) == FRound(BFromInt(n), 0, FALSE)

\* x * y
FMul(x, y) ==
  IF x = FZero \/ y = FZero THEN FZero
  ELSE FRound(BMul(x.m, y.m), x.e + y.e, FALSE)

\* x + y, for exponents less than a limb apart
FAdd(x, y) ==
  IF x = FZero THEN y
  ELSE IF y = FZero THEN x
  ELSE LET e == IF x.e < y.e THEN x.e ELSE y.e
       IN  FRound(BAdd(BShl(x.m, x.e - e), BShl(y.m, y.e - e)), e, FALSE)

\* x / y for y # 0
FDiv(x, y) ==
  IF x = FZero THEN FZero
  ELSE LET d == BDivMod(BShl(x.m, MANT_BITS + 3), y.m)
       IN  FRound(d.q, x.e - y.e - (MANT_BITS + 3), d.r # BZero)

\* math.sqrt(x)
FSqrt(x) ==
  IF x = FZero THEN FZero
  ELSE LET s == IF (x.e - (MANT_BITS + 3)) % 2 = 0 THEN MANT_BITS + 3 ELSE MANT_BITS + 4
           n == BShl(x.m, s)
           found == BSqrt(n)
       IN  FRound(found.root, (x.e - s) \div 2, found.r # BZero)

\* x <= y for doubles that are not negative
FLeq(x, y) ==
  \/ x = FZero
  \/ y # FZero /\ (x.e < y.e \/ (x.e = y.e /\ ~BLess(y.m, x.m)))

\* _compute_tf in doubles: tf[token] /= total, an int by an int
float_compute_tf(tokens) ==
  LET total == Len(tokens)
  IN  IF total = 0 THEN EmptyDict
      ELSE [t \in Range(tokens) |->
              FDiv(FFromInt(Cardinality({i \in DOMAIN tokens : tokens[i] = t})), FFromInt(total))]

\* sum(f[t] for t in terms) starting from the int 0; with at most two terms
\* the order of the terms makes no difference
RECURSIVE float_sum(_, _)
float_sum(terms, f) ==
  IF terms = {} THEN FZero
  ELSE LET t == CHOOSE x \in terms : TRUE
       IN  FAdd(float_sum(terms \ {t}, f), f[t])

\* _cosine_similarity dividing by the product of the sums of squares
float_cosine_similarity_no_sqrt(vec1, vec2) ==
  LET all_terms == DOMAIN vec1 \cup DOMAIN vec2
      dot_product == float_sum(all_terms, [t \in all_terms |-> FMul(get(vec1, t, FZero), get(vec2, t, FZero))])
      mag1 == float_sum(DOMAIN vec1, [t \in DOMAIN vec1 |-> FMul(vec1[t], vec1[t])])
      mag2 == float_sum(DOMAIN vec2, [t \in DOMAIN vec2 |-> FMul(vec2[t], vec2[t])])
  IN  IF mag1 = FZero \/ mag2 = FZero THEN FZero
      ELSE FDiv(dot_product, FMul(mag1, mag2))

\* SimpleVectorStore._cosine_similarity, in doubles
float_cosine_similarity(vec1, vec2) ==
  LET all_terms == DOMAIN vec1 \cup DOMAIN vec2
      dot_product == float_sum(all_terms, [t \in all_terms |-> FMul(get(vec1, t, FZero), get(vec2, t, FZero))])
      mag1 == FSqrt(float_sum(DOMAIN vec1, [t \in DOMAIN vec1 |-> FMul(vec1[t], vec1[t])]))
      mag2 == FSqrt(float_sum(DOMAIN vec2, [t \in DOMAIN vec2 |-> FMul(vec2[t], vec2[t])]))
  IN  IF mag1 = FZero \/ mag2 = FZero THEN FZero
      ELSE FDiv(dot_product, FMul(mag1, mag2))

---------------------------------------------------------------------------
(* _cosine_similarity called on its own *)

\* the token lists: c[1] times "xx", then c[2] times "yy"
CosineCounts == {c \in (0..MaxFirstTerm) \X (0..MaxTokens) : c[1] + c[2] <= MaxTokens}
count_tokens(c) == [i \in 1..(c[1] + c[2]) |-> IF i <= c[1] THEN <<"x", "x">> ELSE <<"y", "y">>]

\* _compute_tf of each token list of the model, computed once
float_vectors == [c \in CosineCounts |-> float_compute_tf(count_tokens(c))] @@ << >>

\* _cosine_similarity of each two of them, computed once
cosine_table ==
  [p \in CosineCounts \X CosineCounts |->
     float_cosine_similarity(float_vectors[p[1]], float_vectors[p[2]])] @@ << >>

\* SimpleVectorStore._cosine_similarity(vec1, vec2)
Cosine(a, b) ==
  /\ call' = Returned("_cosine_similarity",
                      [a |-> a, b |-> b, vec1 |-> float_vectors[a], vec2 |-> float_vectors[b]],
                      cosine_table[<<a, b>>], "not_called")
  /\ UNCHANGED <<documents, documents_type, file, save_failures, host, frame>>

NextCosine == \E a \in CosineCounts : \E b \in CosineCounts : Cosine(a, b)

\* _cosine_similarity on the term frequencies of every two short token lists
SpecCosine == Init /\ [][NextCosine]_vars

\* 1 - 2^-50 and 1 + 2^-50
FNearOneBelow == [m |-> BSub(BPow2(MANT_BITS), BFromInt(8)), e |-> 0 - MANT_BITS]
FNearOneAbove == [m |-> BAdd(BPow2(MANT_BITS - 1), BFromInt(4)), e |-> 1 - MANT_BITS]

\* C25 as stated: cosine(a,b) = cosine(b,a), cosine(v,v) = 1 for a non-zero
\* v, cosine(v,{}) = 0, the result lies in [0,1], and a map of zero
\* magnitude gives 0
C25_CosineExact ==
  call.op = "_cosine_similarity" =>
    LET vec1 == call.arg.vec1
        vec2 == call.arg.vec2
    IN  /\ call.ret = cosine_table[<<call.arg.b, call.arg.a>>]
        /\ (vec1 = vec2 /\ vec1 # EmptyDict) => call.ret = FOne
        /\ (vec1 = EmptyDict \/ vec2 = EmptyDict) => call.ret = FZero
        /\ FLeq(FZero, call.ret) /\ FLeq(call.ret, FOne)

\* C25: cosine(v,{}) = 0 and a map of zero magnitude gives 0; the result is
\* at least 0 and at most 1 + 2^-50; cosine(v,v) is within 2^-50 of 1 for a
\* non-zero v; and cosine(a,b) = cosine(b,a) for maps of two terms together
C25_CosineWithinRounding ==
  call.op = "_cosine_similarity" =>
    LET vec1 == call.arg.vec1
        vec2 == call.arg.vec2
    IN  /\ call.ret = cosine_table[<<call.arg.b, call.arg.a>>]
        /\ (vec1 = vec2 /\ vec1 # EmptyDict) => FLeq(FNearOneBelow, call.ret)
        /\ (vec1 = EmptyDict \/ vec2 = EmptyDict) => call.ret = FZero
        /\ FLeq(FZero, call.ret) /\ FLeq(call.ret, FNearOneAbove)

\* the cosine of {xx: 1/6, yy: 5/6} with itself is above 1
C25_Witness ==
  /\ call.op = "_cosine_similarity"
  /\ call.arg.a = <<1, 5>> /\ call.arg.b = <<1, 5>>
  /\ call.ret # FOne
  /\ FLeq(FOne, call.ret)

---------------------------------------------------------------------------
(* The ranking example: two chunks that score equally for one query *)

\* add_document of the two chunks and search with the query, in any order
NextExample ==
  \/ \E content \in ExampleTexts : AddDocument(content)
  \/ \E top_k \in TopKs : Search(TextRustProgramming, top_k)

SpecExample == Init /\ [][NextExample]_vars

\* the store holds C1 and then C2, and nothing else
ExampleStored ==
  /\ Len(documents) = 2
  /\ documents[1].content = TextRustSystems
  /\ documents[2].content = TextRustLanguage

\* the double _cosine_similarity returns for the query and a chunk
ExampleScore(content) ==
  float_cosine_similarity(float_compute_tf(_tokenize(TextRustProgramming)),
                          float_compute_tf(_tokenize(content)))

\* C26: with C1 = "rust systems programming" and C2 = "rust programming
\* language" stored in that order, search("rust programming") scores both
\* with a cosine whose square is 2/3 (0.8165 once rounded), the two doubles
\* are equal, and the results are C1 and then C2, cut to top_k
C26_EqualScoresKeepInsertionOrder ==
  (call.op = "search" /\ call.error = "none" /\ ExampleStored)
    => /\ \A i \in 1..2 :
            /\ _cosine_similarity(_compute_tf(_tokenize(TextRustProgramming)),
                                  documents[i].tf_vector).sq = Rat(2, 3)
            /\ above_threshold([sq |-> Rat(2, 3)])
       /\ ExampleScore(TextRustSystems) = ExampleScore(TextRustLanguage)
       /\ Len(call.ret) = (IF call.arg.top_k < 2 THEN call.arg.top_k ELSE 2)
       /\ \A i \in 1..Len(call.ret) :
            /\ call.ret[i].id = documents[i].id
            /\ call.ret[i].content = documents[i].content
            /\ call.ret[i].similarity = 8165

\* both chunks were returned, C1 before C2
C26_Witness ==
  /\ call.op = "search" /\ call.error = "none" /\ ExampleStored
  /\ Len(call.ret) = 2
  /\ call.ret[1].content = TextRustSystems
  /\ call.ret[2].content = TextRustLanguage
  /\ call.ret[1].similarity = call.ret[2].similarity

---------------------------------------------------------------------------
(* A failing save and the records of the file *)

(* C27: a save that fails or is interrupted part-way never destroys what an
   earlier successful save wrote: the store a restart constructs after the
   failed save loads at least the records the file held before that save. *)
C27_FailedSaveKeepsFile ==
  [][ (call'.save \in FailedOutcomes)
      => /\ _load(file').type = _load(file).type
         /\ \A i \in DOMAIN _load(file).items :
              _load(file).items[i] \in Range(_load(file').items) ]_steps

---------------------------------------------------------------------------
(* Whole documents: ingestion, deletion by parent id, clear *)

\* the ids ingest_text returns for the texts of the model
ParentIds == {md5_prefix(text) : text \in Texts}

NextParents ==
  \/ \E text \in Texts : IngestText(text)
  \/ \E doc_id \in ParentIds : DeleteDocument(doc_id)
  \/ Clear

\* a store that starts empty and is only ever changed a whole document at a time
SpecParents == Init /\ [][NextParents]_vars

\* the positions of the records of parent p
group(p) == {i \in DOMAIN documents : documents[i].parent_id = p}

(* C28: in every state reached from the empty store by ingest_text,
   delete_document with parent ids and clear, the records of one parent_id
   all carry the same total_chunks, their number is a positive multiple of
   it, and every chunk_index of 0..total_chunks-1 occurs equally often (and
   no other chunk_index occurs). *)
C28_ParentGroupsComplete ==
  \A p \in {documents[i].parent_id : i \in DOMAIN documents} :
    LET totals == {documents[i].total_chunks : i \in group(p)}
        total  == CHOOSE t \in totals : TRUE
        copies == Cardinality(group(p)) \div total
    IN  /\ Cardinality(totals) = 1
        /\ total >= 1
        /\ copies >= 1
        /\ Cardinality(group(p)) = copies * total
        /\ \A i \in group(p) : documents[i].chunk_index \in 0..(total - 1)
        /\ \A k \in 0..(total - 1) :
             Cardinality({i \in group(p) : documents[i].chunk_index = k}) = copies

\* the second ingestion of the two-chunk text: four records of one parent,
\* each chunk_index twice
C28_Witness ==
  /\ call.op = "ingest_text" /\ call.error = "none"
  /\ Len(documents) = 4
  /\ Cardinality({i \in DOMAIN documents : documents[i].chunk_index = 1}) = 2
  /\ \A i \in DOMAIN documents :
       documents[i].parent_id = md5_prefix(TextLong) /\ documents[i].total_chunks = 2

---------------------------------------------------------------------------
(* GmAIEngine with a backend that answers *)

(* In the module as it is, _call_gemini fails before it reaches the network
   and every reply is CONNECTION_ERROR.  Here the reply is what any backend
   can send back: CONNECTION_ERROR, a text not seen before, or a text whose
   digest is already in response_hashes; each await of _call_gemini suspends
   the handler, and clear_history can run while it is suspended.  Once the
   engine has processed MaxEarlyChats messages, a backend that has failed
   keeps failing, and one that answers repeats itself only when
   response_hashes is full. *)

\* the n-th new text a backend sends
fresh_reply(n) == <<"r">> \o decimal(n)

\* n for the digest of fresh_reply(n), 0 for any other digest
RECURSIVE digits_value(_)
digits_value(text) ==
  IF text = << >> THEN 0
  ELSE 10 * digits_value(SubSeq(text, 1, Len(text) - 1))
         + ((CHOOSE d \in DOMAIN Digits : Digits[d] = text[Len(text)]) - 1)

reply_number(h) == IF h # << >> /\ h[1] = "r" THEN digits_value(Tail(h)) ELSE 0

\* the digest _is_duplicate computes for a response
digest(response) == strip(lower(response))

\* a response of the digest h that differs from it in letter case and in
\* surrounding space
repeat_reply(h) ==
  IF h = digest(CONNECTION_ERROR) THEN CONNECTION_ERROR
  ELSE <<"R">> \o Tail(h) \o <<" ">>

\* the largest number of a reply in response_hashes
newest(response_hashes) ==
  LET numbers == {reply_number(response_hashes[k]) : k \in DOMAIN response_hashes} \cup {0}
  IN  CHOOSE n \in numbers : \A m \in numbers : m <= n

\* what a call of _call_gemini can return to the engine
Replies(engine) ==
  LET hashes == engine.response_hashes
      early == engine.total_interactions < MaxEarlyChats
      down == \E k \in DOMAIN hashes : hashes[k] = digest(CONNECTION_ERROR)
  IN  (IF early \/ ~down THEN {fresh_reply(newest(hashes) + 1)} ELSE {})
        \cup (IF hashes = << >> \/ down THEN {CONNECTION_ERROR} ELSE {})
        \cup (IF hashes # << >> /\ (early \/ Len(hashes) = HASH_LIMIT)
              THEN {repeat_reply(hashes[Len(hashes)])} ELSE {})
        \cup (IF Len(hashes) = HASH_KEEP /\ newest(hashes) > HASH_LIMIT
              THEN {fresh_reply(1)} ELSE {})

\* process_message up to its first await: the messages it builds
build_messages(engine, user_message, rag_context) ==
  <<[role |-> "system", content |-> SYSTEM_PROMPT]>>
    \o (IF rag_context # << >>
        THEN <<[role |-> "system", content |-> RAG_PREFIX \o rag_context]>>
        ELSE << >>)
    \o last(engine.conversation_history, HISTORY_WINDOW)
    \o <<[role |-> "user", content |-> user_message]>>

\* the while condition with one retry more
retry_again_once_more(duplicate, retry_count) == duplicate /\ retry_count <= MAX_RETRIES

\* while self._is_duplicate(response_text) and retry_count < 2
retry_again(duplicate, retry_count) == duplicate /\ retry_count < MAX_RETRIES

\* the cut that keeps one entry less
truncate_history_short(history) ==
  IF Len(history) > HISTORY_LIMIT THEN last(history, HISTORY_KEEP - 1) ELSE history

\* if len(self.conversation_history) > 100: keep [-60:]
truncate_history(history) ==
  IF Len(history) > HISTORY_LIMIT THEN last(history, HISTORY_KEEP) ELSE history

\* chat -> process_message up to `await self._call_gemini(messages, temperature)`;
\* the client sends a message once the one before is answered
ChatStart(user_message, rag_context) ==
  /\ requests = << >>
  /\ ai_engine.total_interactions < MaxMessages
  /\ requests' = Append(requests,
                        [handler |-> "chat", pc |-> "awaiting",
                         user_message |-> user_message,
                         messages |-> build_messages(ai_engine, user_message, rag_context),
                         calls |-> 1, retry_count |-> 0,
                         response |-> << >>, dedup_retries |-> 0, context_turns |-> 0])
  /\ UNCHANGED <<documents, documents_type, file, save_failures, call, external, ai_engine,
                 frame>>

\* the reply arrives: _is_duplicate, then either the next call of the loop
\* or the rest of process_message, which has no further await
ChatResume(i, reply) ==
  /\ i \in DOMAIN requests
  /\ requests[i].pc = "awaiting"
  /\ LET checked == _is_duplicate(ai_engine.response_hashes, reply)
         request == requests[i]
         history == truncate_history(
                      ai_engine.conversation_history
                        \o <<[role |-> "user", content |-> request.user_message],
                             [role |-> "assistant", content |-> reply]>>)
     IN  IF retry_again(checked.duplicate, request.retry_count)
         THEN /\ ai_engine' = [ai_engine EXCEPT !.response_hashes = checked.response_hashes]
              /\ requests' = [requests EXCEPT ![i].retry_count = @ + 1, ![i].calls = @ + 1]
         ELSE /\ ai_engine' = [conversation_history |-> history,
                               response_hashes |-> checked.response_hashes,
                               total_interactions |-> ai_engine.total_interactions + 1]
              /\ requests' = [requests EXCEPT ![i].pc = "returned",
                                              ![i].response = reply,
                                              ![i].dedup_retries = request.retry_count,
                                              ![i].context_turns = Len(history) \div 2]
  /\ UNCHANGED <<documents, documents_type, file, save_failures, call, external, frame>>

\* chat returns the result of process_message
ChatRespond(i) ==
  /\ requests[i].pc = "returned"
  /\ requests' = without(requests, i)
  /\ UNCHANGED <<documents, documents_type, file, save_failures, call, external, ai_engine,
                 frame>>

\* clear_chat -> GmAIEngine.clear_history
ClearHistory ==
  /\ ai_engine' = NewEngine
  /\ UNCHANGED <<documents, documents_type, file, save_failures, call, external, requests,
                 frame>>

NextEngine ==
  \/ \E rag_context \in {TextEmpty, TextHello} :
       /\ rag_context = TextEmpty \/ ai_engine.total_interactions < MaxEarlyChats
       /\ ChatStart(TextHello, rag_context)
  \/ \E i \in DOMAIN requests : \E reply \in Replies(ai_engine) : ChatResume(i, reply)
  \/ \E i \in DOMAIN requests : ChatRespond(i)
  \/ ClearHistory

SpecEngine == Construct(FileMissing) /\ [][NextEngine]_vars

\* the event loop resumes a handler whose awaited call has returned
SpecEngineFair ==
  SpecEngine
    /\ WF_requests(\E i \in DOMAIN requests : \E reply \in Replies(ai_engine) :
                     ChatResume(i, reply))

\* what holds of every request and of response_hashes, whatever the backend says
RetriesAndHashesBounded ==
  /\ \A i \in DOMAIN requests :
       /\ requests[i].calls <= 3
       /\ requests[i].calls = requests[i].retry_count + 1
       /\ requests[i].pc = "returned" =>
            /\ requests[i].dedup_retries \in {0, 1, 2}
            /\ requests[i].calls = requests[i].dedup_retries + 1
  /\ Len(ai_engine.response_hashes) <= 50
  /\ \A j, k \in DOMAIN ai_engine.response_hashes :
       ai_engine.response_hashes[j] = ai_engine.response_hashes[k] => j = k

(* C29: process_message calls the backend at most 3 times for a message, the
   first call and at most 2 retries after a duplicate response; its retry
   loop terminates (a request that waits for the backend is answered, given
   that the handler is resumed when a reply is there); the dedup_retries it
   reports is 0, 1 or 2; response_hashes never holds more than 50 entries,
   nor one digest twice. *)
C29_RetryLoopBounded ==
  /\ []RetriesAndHashesBounded
  /\ (requests # << >> /\ requests[1].pc = "awaiting")
       ~> (requests # << >> /\ requests[1].pc = "returned")

\* a message answered after two duplicates by a new text, the 51st digest,
\* which cut response_hashes to its last 30
C29_Witness ==
  /\ Len(requests) = 1
  /\ requests[1].pc = "returned"
  /\ requests[1].dedup_retries = 2
  /\ requests[1].calls = 3
  /\ Len(ai_engine.response_hashes) = 30
  /\ ai_engine.response_hashes[30] = digest(requests[1].response)
  /\ ai_engine.response_hashes[30] = fresh_reply(51)

\* the turns of the conversation a request carries to the backend: what is
\* posted, less the message being asked
carried_history(request) ==
  LET contents == _call_gemini(request.messages).payload.contents
  IN  SubSeq(contents, 1, Len(contents) - 1)

\* conversation_history is a sequence of user/assistant pairs
HistoryAlternates ==
  LET history == ai_engine.conversation_history
  IN  /\ Len(history) % 2 = 0
      /\ Len(history) <= 100
      /\ \A k \in DOMAIN history :
           history[k].role = (IF k % 2 = 1 THEN "user" ELSE "assistant")

(* C30: after any sequence of process_message and clear_history calls,
   conversation_history has an even length of at most 100 and alternates
   user and assistant turns, a user turn first, also once it was cut to its
   last 60; a request to the backend carries at most 20 turns of it, which
   are the last turns the history had when process_message built the
   request. *)
C30_HistoryAlternatesAndWindow ==
  /\ [](/\ HistoryAlternates
        /\ \A i \in DOMAIN requests : Len(carried_history(requests[i])) <= 20)
  /\ [][ Len(requests') > Len(requests)
         => LET history == ai_engine.conversation_history
                carried == carried_history(requests'[Len(requests')])
            IN  /\ Len(carried) = (IF Len(history) < 20 THEN Len(history) ELSE 20)
                /\ \A k \in DOMAIN carried :
                     LET turn == history[Len(history) - Len(carried) + k]
                     IN  /\ carried[k].text = turn.content
                         /\ carried[k].role = (IF turn.role = "user" THEN "user" ELSE "model")
       ]_<<requests, ai_engine>>

\* the 51st message of a conversation was answered: the history was cut from
\* 102 entries to 60, and the next request carries the last 20 of them
C30_Witness ==
  /\ Len(ai_engine.conversation_history) = 60
  /\ ai_engine.total_interactions = 51
  /\ Len(requests) = 1
  /\ requests[1].pc = "awaiting"
  /\ Len(carried_history(requests[1])) = 20

=============================================================================
